---- MODULE Spec2Model ----
(***************************************************************************)
(* Langfuse MCP server: endpoint configuration, the tool dispatcher, the   *)
(* HTTP client's error handling and the get_cost_analysis aggregator.      *)
(*                                                                         *)
(* Strings that the code inspects character by character (URLs) are        *)
(* tuples of one-character strings; strings it only compares or copies are *)
(* TLA+ strings.  JavaScript values that may be undefined are tagged       *)
(* records (Undefined, Num, Str, Bool).  Amounts are integers in a fixed    *)
(* unit; their sums are rounded as floating-point sums are (FloatAdd).     *)
(***************************************************************************)
EXTENDS Integers, Sequences, FiniteSets, TLC

VARIABLES
    env,        \* process environment read at startup
    server,     \* "starting" | "running" | "failed"
    config,     \* the client's LangfuseProjectConfig (NoConfig before startup)
    mode,       \* capability mode fixed at startup
    clientImpl, \* which client source the process is built from
    pc,         \* per call slot: position of the call-tool handler
    callName,   \* per call slot: request.params.name
    callArgs,   \* per call slot: request.params.arguments
    local,      \* per call slot: the handler's local variables across awaits
    requests,   \* per call slot: the HTTP requests issued so far
    envelope,   \* per call slot: the value returned to the protocol
    auditLog,   \* the append-only audit sink
    probe       \* input and output of a client helper run on its own

vars == <<env, server, config, mode, clientImpl, pc, callName, callArgs,
          local, requests, envelope, auditLog, probe>>

-----------------------------------------------------------------------------
(* Bounds of the model *)

MaxCalls == 2

Calls == 1..MaxCalls

-----------------------------------------------------------------------------
(* JavaScript values *)

Undefined == [k |-> "undefined"]

Num(n) == [k |-> "num", n |-> n]

Str(s) == [k |-> "str", s |-> s]

Bool(b) == [k |-> "bool", b |-> b]

NaN == [k |-> "nan"]

\* JavaScript truthiness, as used by `||`, `if (x)` and `!x`
Truthy(v) ==
    CASE v.k = "undefined" -> FALSE
      [] v.k = "nan"       -> FALSE
      [] v.k = "num"       -> v.n # 0
      [] v.k = "str"       -> v.s # ""
      [] v.k = "bool"      -> v.b
      [] OTHER             -> TRUE

\* `x || 0` on a numeric field
NumOrZero(v) == IF Truthy(v) /\ v.k = "num" THEN v.n ELSE 0

StartsWith(s, p) == Len(s) >= Len(p) /\ SubSeq(s, 1, Len(p)) = p

Take(s, n) == SubSeq(s, 1, IF Len(s) < n THEN Len(s) ELSE n)

-----------------------------------------------------------------------------
(* Endpoint configuration: getProjectConfig *)

HttpsPrefix == <<"h", "t", "t", "p", "s", ":", "/", "/">>

DefaultBaseUrl ==
    HttpsPrefix \o <<"c", "l", "o", "u", "d", ".", "l", "a", "n", "g", "f", "u", "s", "e",
                    ".", "c", "o", "m">>

\* LANGFUSE_BASEURL values; the empty tuple is an unset (or empty) variable
BaseUrls ==
    { <<>>,
      HttpsPrefix \o <<"e", "u">>,
      <<"h", "t", "t", "p", ":", "/", "/", "e", "u">>,
      <<"H", "T", "T", "P", "S", ":", "/", "/", "e", "u">>,
      <<"h", "t", "t", "p", "s", ":", "/", "e", "u">>,
      <<" ">> \o HttpsPrefix \o <<"e", "u">>,
      <<"h", "t", "t", "p", "s">> }

\* A key is the tuple of its '-'-separated segments (what split('-') yields),
\* each a tuple of characters; <<>> is an unset key
PublicKeys ==
    { <<>>,
      << <<"p", "k">>, <<"l", "f">>, <<"0", "1", "2", "3", "4", "5", "6", "7", "8", "9">> >>,
      << <<"p", "k">>, <<"l", "f">>, <<"a", "b">> >>,
      << <<"p", "k">>, <<"l", "f">> >> }

SecretKeys == { <<>>, << <<"s", "k">>, <<"l", "f">>, <<"x">> >> }

ModeSelectors == { "", "readonly", "readwrite" }

Envs ==
    [ publicKey : PublicKeys, secretKey : SecretKeys,
      baseUrl : BaseUrls, modeSel : ModeSelectors ]

\* The same, cut down for runs with several calls in flight: one setting
\* varied at a time around a complete environment
BaseEnv ==
    [ publicKey |-> << <<"p", "k">>, <<"l", "f">>, <<"a", "b">> >>,
      secretKey |-> << <<"s", "k">>, <<"l", "f">>, <<"x">> >>,
      baseUrl |-> <<>>, modeSel |-> "readwrite" ]

FewEnvs ==
    { [ BaseEnv EXCEPT !.baseUrl = u ] :
        u \in { <<>>, <<"h", "t", "t", "p", ":", "/", "/", "e", "u">> } }
      \cup { [ BaseEnv EXCEPT !.publicKey = k ] : k \in { <<>>, << <<"p", "k">>, <<"l", "f">> >> } }
      \cup { [ BaseEnv EXCEPT !.modeSel = m ] : m \in ModeSelectors }

NoConfig == [ id |-> <<>>, baseUrl |-> <<>>, publicKey |-> <<>>, secretKey |-> <<>> ]

\* process.env.LANGFUSE_BASEURL || 'https://cloud.langfuse.com'
ResolvedBaseUrl(e) == IF e.baseUrl = <<>> THEN DefaultBaseUrl ELSE e.baseUrl

ProjectIdLen == 8

\* publicKey.split('-')[2]?.substring(0, 8) || 'default'
ProjectIdOf(publicKey) ==
    IF Len(publicKey) >= 3 /\ publicKey[3] # <<>>
    THEN Take(publicKey[3], ProjectIdLen)
    ELSE <<"d", "e", "f", "a", "u", "l", "t">>

\* A variant of ConfigError that tests the scheme for 'http' only
ConfigErrorAnyHttp(e) ==
    IF e.publicKey = <<>> \/ e.secretKey = <<>> THEN "MissingKeys"
    ELSE IF ~StartsWith(ResolvedBaseUrl(e), <<"h", "t", "t", "p">>) THEN "SecurityError"
    ELSE "none"

ConfigError(e) ==
    IF e.publicKey = <<>> \/ e.secretKey = <<>> THEN "MissingKeys"
    ELSE IF ~StartsWith(ResolvedBaseUrl(e), HttpsPrefix) THEN "SecurityError"
    ELSE "none"

getProjectConfig(e) ==
    IF ConfigError(e) # "none"
    THEN [ ok |-> FALSE, error |-> ConfigError(e), config |-> NoConfig ]
    ELSE [ ok |-> TRUE, error |-> "none",
           config |-> [ id |-> ProjectIdOf(e.publicKey),
                        baseUrl |-> ResolvedBaseUrl(e),
                        publicKey |-> e.publicKey,
                        secretKey |-> e.secretKey ] ]

\* A variant of getServerMode that grants writes unless told otherwise
getServerModeDefaultReadWrite(e) ==
    IF e.modeSel = "readonly" THEN "READONLY" ELSE "READWRITE"

\* mode-config.ts is not in the sources: the selector decides, default READONLY
getServerMode(e) == IF e.modeSel = "readwrite" THEN "READWRITE" ELSE "READONLY"

\* getCurrentServerMode(): return getServerMode(), derived anew at every query
getCurrentServerMode(e) == getServerMode(e)

ClientImpls == { "langfuse-client.ts", "part_003" }

-----------------------------------------------------------------------------
(* Call arguments and zod validation *)

\* Instants on a half-day grid.  Date-time strings are ISO-8601 instants;
\* date-only strings parse (new Date) to midnight UTC but are no zod datetime.
DateParse ==
    [ s \in { "2024-01-01T00:00:00Z", "2024-01-01T12:00:00Z",
              "2024-01-02T00:00:00Z", "2024-01-02T12:00:00Z",
              "2024-01-03T00:00:00Z",
              "2024-01-01", "2024-01-02", "2024-01-03" } |->
        CASE s \in { "2024-01-01T00:00:00Z", "2024-01-01" } -> 0
          [] s = "2024-01-01T12:00:00Z" -> 1
          [] s \in { "2024-01-02T00:00:00Z", "2024-01-02" } -> 2
          [] s = "2024-01-02T12:00:00Z" -> 3
          [] OTHER -> 4 ]

\* z.string().datetime(): the full ISO form with a Z offset
IsDatetime(s) ==
    s \in { "2024-01-01T00:00:00Z", "2024-01-01T12:00:00Z", "2024-01-02T00:00:00Z",
            "2024-01-02T12:00:00Z", "2024-01-03T00:00:00Z" }

\* new Date(x).getTime(): NaN for anything that does not parse
TimeOf(v) ==
    IF v.k = "str" /\ v.s \in DOMAIN DateParse THEN Num(DateParse[v.s]) ELSE NaN

ArgFields ==
    { "from", "to", "environment", "includeModelBreakdown", "includeUserBreakdown",
      "includeDailyBreakdown", "limit", "page", "name", "modelId", "promptName",
      "version", "label", "itemId", "datasetName", "content", "confirmed", "extra" }

\* request.params.arguments: undefined, or an object (absent keys are Undefined)
NoArgs == [ k |-> "undefined" ]

EmptyObject == [ k |-> "object", f |-> [ a \in ArgFields |-> Undefined ] ]

Obj(fields) ==
    [ k |-> "object",
      f |-> [ a \in ArgFields |-> IF a \in DOMAIN fields THEN fields[a] ELSE Undefined ] ]

\* One zod field: its type, whether it may be absent, its default and its bounds
ZString == [ type |-> "str", optional |-> FALSE, hasDefault |-> FALSE, datetime |-> FALSE,
             bounded |-> FALSE, min |-> 0, max |-> 0, default |-> Undefined ]

ZDatetime == [ ZString EXCEPT !.datetime = TRUE ]

ZOptional(z) == [ z EXCEPT !.optional = TRUE ]

ZNumber == [ ZString EXCEPT !.type = "num" ]

ZBoolean == [ ZString EXCEPT !.type = "bool" ]

ZDefault(z, d) == [ z EXCEPT !.hasDefault = TRUE, !.default = d ]

ZRange(z, lo, hi) == [ z EXCEPT !.bounded = TRUE, !.min = lo, !.max = hi ]

LimitMin == 5

LimitMax == 100

LimitDefault == 20

getCostAnalysisSchema ==
    [ from |-> ZDatetime,
      to |-> ZDatetime,
      environment |-> ZOptional(ZString),
      includeModelBreakdown |-> ZDefault(ZBoolean, Bool(TRUE)),
      includeUserBreakdown |-> ZDefault(ZBoolean, Bool(TRUE)),
      includeDailyBreakdown |-> ZDefault(ZBoolean, Bool(TRUE)),
      limit |-> ZDefault(ZRange(ZNumber, LimitMin, LimitMax), Num(LimitDefault)) ]

listPromptsSchema ==
    [ limit |-> ZOptional(ZNumber), page |-> ZOptional(ZNumber),
      name |-> ZOptional(ZString) ]

getModelDetailSchema == [ modelId |-> ZString ]

getPromptDetailSchema ==
    [ promptName |-> ZString, version |-> ZOptional(ZNumber),
      label |-> ZOptional(ZString) ]

listModelsSchema == [ limit |-> ZOptional(ZNumber), page |-> ZOptional(ZNumber) ]

\* z.object({}): indexed by no field
getHealthStatusSchema == [ a \in {} |-> ZString ]

\* A variant of FieldIssue that does not check min and max
FieldIssueUnbounded(z, v) ==
    IF v.k = "undefined"
    THEN IF z.optional \/ z.hasDefault THEN "ok" ELSE "Required"
    ELSE IF v.k # z.type THEN "invalid_type"
    ELSE IF z.datetime /\ ~IsDatetime(v.s) THEN "invalid_string"
    ELSE "ok"

\* One field against its zod type: "ok" or the issue zod raises
FieldIssue(z, v) ==
    IF v.k = "undefined"
    THEN IF z.optional \/ z.hasDefault THEN "ok" ELSE "Required"
    ELSE IF v.k # z.type THEN "invalid_type"
    ELSE IF z.datetime /\ ~IsDatetime(v.s) THEN "invalid_string"
    ELSE IF z.bounded /\ v.n < z.min THEN "too_small"
    ELSE IF z.bounded /\ v.n > z.max THEN "too_big"
    ELSE "ok"

FieldValue(z, v) == IF v.k = "undefined" /\ z.hasDefault THEN z.default ELSE v

\* schema.parse(raw): fails on a non-object or on any field's issue; the parsed
\* object holds the schema's fields only (unknown keys are stripped)
ZodParse(schema, raw) ==
    IF raw.k # "object"
    THEN [ ok |-> FALSE, issues |-> { <<"", "Required">> }, args |-> EmptyObject.f ]
    ELSE LET bad == { a \in DOMAIN schema : FieldIssue(schema[a], raw.f[a]) # "ok" }
         IN  [ ok |-> bad = {},
               issues |-> { <<a, FieldIssue(schema[a], raw.f[a])>> : a \in bad },
               args |-> [ a \in ArgFields |->
                            IF a \in DOMAIN schema /\ bad = {}
                            THEN FieldValue(schema[a], raw.f[a])
                            ELSE Undefined ] ]

-----------------------------------------------------------------------------
(* The HTTP client: requests, responses and error messages *)

\* Operation labels in error messages: [op -> <<label in langfuse-client.ts,
\* label passed to handleApiError in part_003>>].  The dataset and comment
\* operations exist in part_003 only.
OpLabels ==
    [ getMetrics        |-> <<"Metrics", "Metrics">>,
      listTraces        |-> <<"Traces", "Traces">>,
      getDailyMetrics   |-> <<"Daily Metrics", "Daily Metrics">>,
      getHealthStatus   |-> <<"Health", "Health Check">>,
      listModels        |-> <<"Models", "List Models">>,
      getModel          |-> <<"Model", "Get Model">>,
      listPrompts       |-> <<"Prompts", "List Prompts">>,
      getPrompt         |-> <<"Prompt", "Get Prompt">>,
      createDataset     |-> <<"", "Create Dataset">>,
      createDatasetItem |-> <<"", "Create Dataset Item">>,
      deleteDatasetItem |-> <<"", "Delete Dataset Item">>,
      createComment     |-> <<"", "Create Comment">> ]

ClientOps == DOMAIN OpLabels

\* String.prototype.toLowerCase on the labels handleApiError receives
ToLowerCase ==
    [ s \in { OpLabels[o][2] : o \in ClientOps } |->
        CASE s = "Metrics" -> "metrics"
          [] s = "Traces" -> "traces"
          [] s = "Daily Metrics" -> "daily metrics"
          [] s = "Health Check" -> "health check"
          [] s = "List Models" -> "list models"
          [] s = "Get Model" -> "get model"
          [] s = "List Prompts" -> "list prompts"
          [] s = "Get Prompt" -> "get prompt"
          [] s = "Create Dataset" -> "create dataset"
          [] s = "Create Dataset Item" -> "create dataset item"
          [] s = "Delete Dataset Item" -> "delete dataset item"
          [] OTHER -> "create comment" ]

NoUrl == [ base |-> <<>>, path |-> <<>>, query |-> <<>> ]

\* An Error's message: the template and the values interpolated into it.
\* Parts a template does not interpolate stay at their neutral value.
NoMessage ==
    [ prefix |-> <<>>, template |-> "", label |-> "", status |-> 0,
      statusText |-> "", url |-> NoUrl, body |-> "", name |-> "", issues |-> {} ]

\* 'Basic ' + base64(publicKey + ':' + secretKey), computed from the config
NoAuth == [ scheme |-> "none", publicKey |-> <<>>, secretKey |-> <<>> ]

AuthHeader(cfg) ==
    [ scheme |-> "Basic", publicKey |-> cfg.publicKey, secretKey |-> cfg.secretKey ]

\* if (x) queryParams.append(key, x.toString()) for each listed key, in order
RECURSIVE AppendTruthy(_, _)
AppendTruthy(keys, args) ==
    IF keys = <<>> THEN <<>>
    ELSE LET v == args[Head(keys)]
             rest == AppendTruthy(Tail(keys), args)
         IN  IF ~Truthy(v) THEN rest
             ELSE <<  <<Head(keys), IF v.k = "num" THEN ToString(v.n) ELSE v.s>>  >> \o rest

\* The init argument of fetch names no AbortSignal
NoSignal == [ aborts |-> "never" ]

\* fetch(url, { method, headers }): no client operation passes a signal
Request(cfg, op, method, path, query, auth) ==
    [ op |-> op, method |-> method,
      url |-> [ base |-> cfg.baseUrl, path |-> path, query |-> query ],
      auth |-> IF auth THEN AuthHeader(cfg) ELSE NoAuth,
      signal |-> NoSignal ]

listPromptsRequest(cfg, args) ==
    Request(cfg, "listPrompts", "GET",
            IF clientImpl = "part_003" THEN <<"/api/public/v2/prompts">>
                                       ELSE <<"/api/public/prompts">>,
            AppendTruthy(<<"limit", "page", "name">>, args), TRUE)

listModelsRequest(cfg, args) ==
    Request(cfg, "listModels", "GET", <<"/api/public/models">>,
            AppendTruthy(<<"limit", "page">>, args), TRUE)

getModelRequest(cfg, args) ==
    Request(cfg, "getModel", "GET", <<"/api/public/models/", args.modelId.s>>, <<>>, TRUE)

\* version is appended when it is not undefined (0 included), label when truthy
getPromptRequest(cfg, args) ==
    Request(cfg, "getPrompt", "GET",
            IF clientImpl = "part_003"
            THEN <<"/api/public/v2/prompts/", args.promptName.s>>
            ELSE <<"/api/public/prompts/", args.promptName.s>>,
            (IF args.version.k = "num"
             THEN << <<"version", ToString(args.version.n)>> >> ELSE <<>>)
              \o AppendTruthy(<<"label">>, args),
            TRUE)

\* A variant of getHealthStatus that sends the Authorization header too
getHealthStatusRequestAuthenticated(cfg) ==
    Request(cfg, "getHealthStatus", "GET", <<"/api/public/health">>, <<>>, TRUE)

getHealthStatusRequest(cfg) ==
    Request(cfg, "getHealthStatus", "GET", <<"/api/public/health">>, <<>>, FALSE)

\* Responses of the backend: a 2xx with a JSON body, a non-2xx with any body,
\* or no response at all (fetch rejects)
NoJson == [ data |-> Undefined ]

OkResponse(json) ==
    [ kind |-> "ok", status |-> 200, statusText |-> "OK", body |-> "", json |-> json ]

ErrorResponse(status, text, body) ==
    [ kind |-> "status", status |-> status, statusText |-> text, body |-> body,
      json |-> NoJson ]

NetworkFailure ==
    [ kind |-> "network", status |-> 0, statusText |-> "", body |-> "", json |-> NoJson ]

ErrorResponses ==
    { ErrorResponse(401, "Unauthorized", "bad key"),
      ErrorResponse(500, "Internal Server Error", "db password=hunter2"),
      ErrorResponse(500, "Internal Server Error", "stack trace") }

\* part_003: throw new Error(`Failed to ${operation.toLowerCase()}: API returned
\* status ${response.status}`)
handleApiErrorMessage(operation, response) ==
    [ NoMessage EXCEPT !.template = "Failed to ${label}: API returned status ${status}",
                       !.label = ToLowerCase[operation],
                       !.status = response.status ]

\* langfuse-client.ts: every operation interpolates status and statusText;
\* listTraces adds the request URL and the response body (the sample bodies are
\* shorter than the 200 characters substring(0, 200) keeps)
legacyErrorMessage(op, response, url) ==
    IF op = "listTraces"
    THEN [ NoMessage EXCEPT
             !.template = "${label} API error: ${status} ${statusText}. URL: ${url}. Response: ${body}",
             !.label = OpLabels[op][1], !.status = response.status,
             !.statusText = response.statusText, !.url = url, !.body = response.body ]
    ELSE [ NoMessage EXCEPT
             !.template = "${label} API error: ${status} ${statusText}",
             !.label = OpLabels[op][1], !.status = response.status,
             !.statusText = response.statusText ]

\* The message of the Error a client operation throws on a non-2xx response
ApiErrorMessage(impl, op, response, url) ==
    IF impl = "langfuse-client.ts" /\ OpLabels[op][1] # ""
    THEN legacyErrorMessage(op, response, url)
    ELSE handleApiErrorMessage(OpLabels[op][2], response)

\* fetch itself rejected: the TypeError's message
NetworkErrorMessage == [ NoMessage EXCEPT !.template = "fetch failed" ]

\* What awaiting a client operation yields for a response
ClientOutcome(impl, req, response) ==
    CASE response.kind = "ok" ->
           [ threw |-> FALSE, message |-> NoMessage, json |-> response.json ]
      [] response.kind = "status" ->
           [ threw |-> TRUE, json |-> NoJson,
             message |-> ApiErrorMessage(impl, req.op, response, req.url) ]
      [] OTHER ->
           [ threw |-> TRUE, json |-> NoJson, message |-> NetworkErrorMessage ]

-----------------------------------------------------------------------------
(* get_cost_analysis: the aggregation over the daily source *)

Arr(items) == [ k |-> "array", items |-> items ]

\* A JS number is a binary floating-point value: the result of an operation
\* is rounded to the nearest value the significand can hold, ties to even.
\* The model keeps the rounding and narrows the significand from 53 bits to
\* MantissaBits, so that every intermediate value fits the checker's integers.
\* Amounts are whole numbers; a quotient is the pair [m, e] standing for
\* m * 2^e.
MantissaBits == 25

RECURSIVE Pow2(_)
Pow2(k) == IF k = 0 THEN 1 ELSE 2 * Pow2(k - 1)

\* The significand holds the whole numbers below this limit
SignificandLimit == Pow2(MantissaBits)

RECURSIVE UlpOf(_, _)
\* the spacing of representable values around magnitude a
UlpOf(a, u) == IF a \div u < SignificandLimit THEN u ELSE UlpOf(a, 2 * u)

FloatRound(n) ==
    LET a == IF n < 0 THEN -n ELSE n
        u == UlpOf(a, 1)
        q == a \div u
        r == a % u
        m == IF 2 * r < u THEN q
             ELSE IF 2 * r > u THEN q + 1
             ELSE IF q % 2 = 0 THEN q ELSE q + 1
    IN  IF n < 0 THEN -(m * u) ELSE m * u

\* x + y on numbers
FloatAdd(x, y) == FloatRound(x + y)

RECURSIVE DivSteps(_, _, _, _)
\* long division, one quotient bit a step, until the quotient holds one bit
\* more than the significand
DivSteps(q, r, e, t) ==
    IF q >= SignificandLimit THEN [ q |-> q, r |-> r, e |-> e ]
    ELSE LET b == IF 2 * r >= t THEN 1 ELSE 0
         IN  DivSteps(2 * q + b, 2 * r - b * t, e - 1, t)

\* x / y on numbers, for x >= 0 and y > 0: the quotient rounded to the
\* significand (the extra bit and the remainder decide the rounding)
FloatDiv(x, y) ==
    IF x = 0 THEN [ m |-> 0, e |-> 0 ]
    ELSE LET d == DivSteps(x \div y, x % y, 0, y)
             m == d.q \div 2
             up == d.q % 2 = 1 /\ (d.r # 0 \/ m % 2 = 1)
         IN  [ m |-> IF up THEN m + 1 ELSE m, e |-> d.e + 1 ]

RECURSIVE Log2(_)
Log2(u) == IF u = 1 THEN 0 ELSE 1 + Log2(u \div 2)

\* v * 100 on numbers: 100 = 25 * 2^2, and scaling by a power of two is exact
FloatTimes100(v) ==
    LET u == UlpOf(v.m * 25, 1)
    IN  [ m |-> FloatRound(v.m * 25) \div u, e |-> v.e + 2 + Log2(u) ]

\* Math.round(v): the nearest integer, halves rounded up
MathRound(v) ==
    IF v.e >= 0 THEN v.m * Pow2(v.e)
    ELSE IF -v.e > 30 THEN 0
    ELSE LET d == Pow2(-v.e) IN (v.m + d \div 2) \div d

RECURSIVE SumFrom(_, _, _)
SumFrom(F(_), s, acc) ==
    IF s = <<>> THEN acc ELSE SumFrom(F, Tail(s), FloatAdd(acc, F(Head(s))))

\* reduce((sum, x) => sum + F(x), 0): added left to right
SumOver(F(_), s) == SumFrom(F, s, 0)

RECURSIVE FilterSeq(_, _)
FilterSeq(P(_), s) ==
    IF s = <<>> THEN <<>>
    ELSE (IF P(Head(s)) THEN <<Head(s)>> ELSE <<>>) \o FilterSeq(P, Tail(s))

RECURSIVE InsertSorted(_, _, _)
\* x goes after every element it does not precede: the sort is stable
InsertSorted(Before(_, _), x, s) ==
    IF s = <<>> THEN <<x>>
    ELSE IF Before(x, Head(s)) THEN <<x>> \o s
    ELSE <<Head(s)>> \o InsertSorted(Before, x, Tail(s))

RECURSIVE SortBy(_, _)
\* Array.prototype.sort with a comparator: a stable sort
SortBy(Before(_, _), s) ==
    IF s = <<>> THEN <<>>
    ELSE InsertSorted(Before, s[Len(s)], SortBy(Before, SubSeq(s, 1, Len(s) - 1)))

\* dayDate >= fromDate && dayDate <= toDate: false when any side is NaN
InWindow(day, from, to) ==
    LET d == TimeOf(day.date)
        f == TimeOf(from)
        t == TimeOf(to)
    IN  d.k = "num" /\ f.k = "num" /\ t.k = "num" /\ d.n >= f.n /\ d.n <= t.n

\* dailyResponse.data filtered to the window, when data is an array
DailyDataOf(json, from, to) ==
    IF json.data.k = "array"
    THEN LET In(day) == InWindow(day, from, to) IN FilterSeq(In, json.data.items)
    ELSE <<>>

DayCost(day) == NumOrZero(day.totalCost)

TotalCostOf(dailyData) == SumOver(DayCost, dailyData)

\* usage.totalUsage || usage.inputUsage + usage.outputUsage || 0
UsageTokens(u) ==
    IF Truthy(u.totalUsage) THEN u.totalUsage.n
    ELSE IF u.inputUsage.k = "num" /\ u.outputUsage.k = "num"
            /\ FloatAdd(u.inputUsage.n, u.outputUsage.n) # 0
         THEN FloatAdd(u.inputUsage.n, u.outputUsage.n)
         ELSE 0

UsageRows(day) == IF day.usage.k = "array" THEN day.usage.items ELSE <<>>

RECURSIVE AllUsage(_)
\* the usage rows of the days, in iteration order
AllUsage(days) ==
    IF days = <<>> THEN <<>> ELSE UsageRows(Head(days)) \o AllUsage(Tail(days))

\* usage.model || 'unknown'
ModelNameOf(u) == IF Truthy(u.model) THEN u.model.s ELSE "unknown"

RECURSIVE DistinctKeys(_, _)
\* Map keys in insertion order
DistinctKeys(Key(_), rows) ==
    IF rows = <<>> THEN <<>>
    ELSE LET rest == DistinctKeys(Key, SubSeq(rows, 1, Len(rows) - 1))
             k == Key(rows[Len(rows)])
         IN  IF \E j \in 1..Len(rest) : rest[j] = k THEN rest ELSE Append(rest, k)

\* A variant of Percentage that cuts the product off instead of rounding it
PercentageTruncated(cost, totalCost) ==
    IF totalCost > 0
    THEN LET v == FloatTimes100(FloatTimes100(FloatDiv(cost, totalCost)))
         IN  MathRound([ v EXCEPT !.m = IF v.e < 0 /\ -v.e <= 30
                                         THEN (@ \div Pow2(-v.e)) * Pow2(-v.e) ELSE @ ])
    ELSE 0

\* Math.round((cost / totalCost) * 100 * 100) / 100 when totalCost > 0, else 0:
\* the division and the two products are rounded one after the other; the
\* value is kept in hundredths of a percent
Percentage(cost, totalCost) ==
    IF totalCost > 0
    THEN MathRound(FloatTimes100(FloatTimes100(FloatDiv(cost, totalCost))))
    ELSE 0

UsageCost(u) == NumOrZero(u.totalCost)

UsageObservations(u) == NumOrZero(u.countObservations)

\* A variant of ModelRow that keeps the last usage row of the model only
ModelRowLastUsageOnly(model, usage, totalCost) ==
    LET Mine(u) == ModelNameOf(u) = model
        mine == FilterSeq(Mine, usage)
        last == mine[Len(mine)]
    IN  [ model |-> model,
          cost |-> UsageCost(last),
          tokens |-> UsageTokens(last),
          observations |-> UsageObservations(last),
          percentage |-> Percentage(UsageCost(last), totalCost) ]

ModelRow(model, usage, totalCost) ==
    LET Mine(u) == ModelNameOf(u) = model
        mine == FilterSeq(Mine, usage)
    IN  [ model |-> model,
          cost |-> SumOver(UsageCost, mine),
          tokens |-> SumOver(UsageTokens, mine),
          observations |-> SumOver(UsageObservations, mine),
          percentage |-> Percentage(SumOver(UsageCost, mine), totalCost) ]

\* (a, b) => b.cost - a.cost
CostDescending(a, b) == a.cost > b.cost

\* A variant of ModelBreakdown that cuts the rows to the limit before sorting
ModelBreakdownCutFirst(dailyData, totalCost, limit) ==
    LET usage == AllUsage(dailyData)
        keys == DistinctKeys(ModelNameOf, usage)
        rows == [ j \in 1..Len(keys) |-> ModelRow(keys[j], usage, totalCost) ]
    IN  SortBy(CostDescending, Take(rows, limit))

\* Array.from(modelMap.entries()).map(...).sort(...).slice(0, args.limit)
ModelBreakdown(dailyData, totalCost, limit) ==
    LET usage == AllUsage(dailyData)
        keys == DistinctKeys(ModelNameOf, usage)
        rows == [ j \in 1..Len(keys) |-> ModelRow(keys[j], usage, totalCost) ]
    IN  Take(SortBy(CostDescending, rows), limit)

UserRow(row, totalCost) ==
    [ userId |-> row.userId.s,
      cost |-> NumOrZero(row.totalCost_sum),
      tokens |-> NumOrZero(row.totalTokens_sum),
      traces |-> NumOrZero(row.count_count),
      percentage |-> Percentage(NumOrZero(row.totalCost_sum), totalCost) ]

HasUserId(row) == Truthy(row.userId)

UserBreakdown(json, totalCost, limit) ==
    LET kept == IF json.data.k = "array" THEN FilterSeq(HasUserId, json.data.items) ELSE <<>>
        rows == [ j \in 1..Len(kept) |-> UserRow(kept[j], totalCost) ]
    IN  Take(SortBy(CostDescending, rows), limit)

\* A variant of DayRow that takes the day's cost from its usage rows
DayRowCostFromUsage(day) ==
    [ date |-> day.date,
      cost |-> SumOver(UsageCost, UsageRows(day)),
      tokens |-> SumOver(UsageTokens, UsageRows(day)),
      traces |-> NumOrZero(day.countTraces) ]

DayRow(day) ==
    [ date |-> day.date,
      cost |-> DayCost(day),
      tokens |-> SumOver(UsageTokens, UsageRows(day)),
      traces |-> NumOrZero(day.countTraces) ]

\* (a, b) => new Date(a.date).getTime() - new Date(b.date).getTime()
DateAscending(a, b) == TimeOf(a.date).n < TimeOf(b.date).n

\* A variant of DailyBreakdown that leaves the rows in arrival order
DailyBreakdownUnsorted(dailyData) ==
    [ j \in 1..Len(dailyData) |-> DayRow(dailyData[j]) ]

\* dailyData.map(...) and then sort by the time of the date
DailyBreakdown(dailyData) ==
    SortBy(DateAscending, [ j \in 1..Len(dailyData) |-> DayRow(dailyData[j]) ])

-----------------------------------------------------------------------------
(* Backend data the model draws from *)

MaxDays == 3

UsageRow(model, cost, total, input, output, observations) ==
    [ model |-> model, totalCost |-> cost, totalUsage |-> total,
      inputUsage |-> input, outputUsage |-> output, countObservations |-> observations ]

Gpt4A == UsageRow(Str("gpt-4"), Num(100), Num(100), Undefined, Undefined, Num(1))

Gpt4B == UsageRow(Str("gpt-4"), Num(250), Num(250), Num(200), Num(50), Num(2))

Claude == UsageRow(Str("claude"), Num(50), Undefined, Num(30), Num(20), Num(4))

Anon == UsageRow(Undefined, Undefined, Undefined, Undefined, Num(7), Undefined)

\* 23 of 160 is 14.375 percent, 33333 of 100000 is 33.333 percent
Mistral == UsageRow(Str("mistral"), Num(23), Num(40), Undefined, Undefined, Num(1))

Llama == UsageRow(Str("llama"), Num(33333), Num(900), Undefined, Undefined, Num(3))

Gemini == UsageRow(Str("gemini"), Num(10), Undefined, Undefined, Undefined, Undefined)

\* The least amount to which adding 1 is lost to rounding
BigCost == SignificandLimit

Day(date, cost, usage, traces) ==
    [ date |-> date, totalCost |-> cost, usage |-> usage, countTraces |-> traces ]

\* Rows of /api/public/metrics/daily: objects whose fields may be missing
DaySamples ==
    { Day(Str("2024-01-01"), Num(100), Arr(<<Gpt4A>>), Num(3)),
      Day(Str("2024-01-02"), Num(250), Arr(<<Gpt4B>>), Num(5)),
      Day(Str("2024-01-02"), Undefined, Arr(<<Claude>>), Undefined),
      Day(Str("2024-01-01"), Num(300), Arr(<<Gpt4A, Claude, Anon>>), Num(6)),
      Day(Str("not a date"), Num(100), Arr(<<Gpt4A>>), Num(1)),
      Day(Str("2024-01-02"), Num(160), Arr(<<Mistral, Gemini>>), Num(2)),
      Day(Str("2024-01-01"), Num(100000), Arr(<<Llama>>), Num(9)),
      Day(Str("2024-01-03"), Num(BigCost), Undefined, Num(1)),
      Day(Str("2024-01-01"), Num(1), Undefined, Num(1)) }

SeqsUpTo(S, n) == UNION { [ 1..m -> S ] : m \in 0..n }

DailyJsons ==
    { [ data |-> Arr(days) ] : days \in SeqsUpTo(DaySamples, MaxDays) }
      \cup { [ data |-> Undefined ] }

UserRowOf(userId, cost, tokens, count) ==
    [ userId |-> userId, totalCost_sum |-> cost, totalTokens_sum |-> tokens,
      count_count |-> count ]

Alice == UserRowOf(Str("alice"), Num(120), Num(900), Num(4))

Bob == UserRowOf(Str("bob"), Num(400), Undefined, Num(1))

NoUser == UserRowOf(Undefined, Num(30), Num(10), Num(1))

\* More users than the smallest limit admits, two of them of equal cost
Carol == UserRowOf(Str("carol"), Num(50), Num(70), Num(2))

Dave == UserRowOf(Str("dave"), Num(400), Num(10), Num(1))

Erin == UserRowOf(Str("erin"), Num(10), Num(5), Num(1))

Frank == UserRowOf(Str("frank"), Num(300), Undefined, Undefined)

UserJsons ==
    { [ data |-> Arr(<<Alice, Bob>>) ], [ data |-> Arr(<<NoUser, Bob, Alice>>) ],
      [ data |-> Arr(<<>>) ], [ data |-> Undefined ] }

\* What the backend may answer to the daily and to the metrics request
DailyResponses ==
    { OkResponse(j) : j \in DailyJsons }
      \cup { ErrorResponse(500, "Internal Server Error", "stack trace"), NetworkFailure }

UserResponses ==
    { OkResponse(j) : j \in UserJsons }
      \cup { ErrorResponse(500, "Internal Server Error", "stack trace"), NetworkFailure }

\* The same, cut down for runs with several calls in flight
FewDailyResponses ==
    { OkResponse([ data |-> Arr(<< Day(Str("2024-01-02"), Num(250), Arr(<<Gpt4B>>), Num(5)),
                                   Day(Str("2024-01-01"), Num(100), Arr(<<Gpt4A>>), Num(3)) >>) ]),
      NetworkFailure }

FewUserResponses ==
    { OkResponse([ data |-> Arr(<<Alice, Bob>>) ]),
      ErrorResponse(500, "Internal Server Error", "stack trace") }

\* Raw arguments of get_cost_analysis
Window(from, to) == [ from |-> Str(from), to |-> Str(to) ]

CostArgs ==
    { Obj(w @@ flags) :
        w \in { Window("2024-01-01T00:00:00Z", "2024-01-03T00:00:00Z"),
                Window("2024-01-01T12:00:00Z", "2024-01-02T00:00:00Z"),
                Window("2024-01-02T12:00:00Z", "2024-01-01T00:00:00Z") },
        flags \in { [ extra |-> Undefined ],
                    [ includeUserBreakdown |-> Bool(FALSE) ],
                    [ includeDailyBreakdown |-> Bool(FALSE), limit |-> Num(5) ],
                    [ includeModelBreakdown |-> Bool(FALSE), extra |-> Str("x") ] } }
      \cup { NoArgs,
             Obj([ from |-> Str("2024-01-01T00:00:00Z") ]),
             Obj(Window("2024-01-01", "2024-01-03T00:00:00Z")),
             Obj(Window("2024-01-01T00:00:00Z", "2024-01-03T00:00:00Z") @@ [ limit |-> Num(4) ]),
             Obj(Window("2024-01-01T00:00:00Z", "2024-01-03T00:00:00Z") @@ [ limit |-> Str("5") ]) }

FewCostArgs ==
    { Obj(Window("2024-01-01T00:00:00Z", "2024-01-03T00:00:00Z")),
      Obj(Window("2024-01-01T00:00:00Z", "2024-01-03T00:00:00Z")
            @@ [ includeUserBreakdown |-> Bool(FALSE), extra |-> Str("x") ]),
      Obj([ from |-> Str("2024-01-01T00:00:00Z") ]),
      Obj(Window("2024-01-01T00:00:00Z", "2024-01-03T00:00:00Z") @@ [ limit |-> Num(101) ]),
      Obj(Window("2024-01-01T00:00:00Z", "2024-01-03T00:00:00Z") @@ [ limit |-> Str("5") ]) }

-----------------------------------------------------------------------------
(* The response envelope *)

NoResult ==
    [ projectId |-> <<>>, from |-> Undefined, to |-> Undefined, totalCost |-> 0,
      breakdown |-> [ byModel |-> Undefined, byUser |-> Undefined, byDay |-> Undefined ] ]

\* One text block: JSON.stringify of a payload, or an error message
TextBlock(kind, message, json, result) ==
    [ type |-> "text", kind |-> kind, message |-> message, json |-> json,
      result |-> result ]

\* The value of a handler that has not returned yet
Pending == [ content |-> <<>>, isError |-> "pending" ]

\* A variant of the error envelope that sets no isError key
ErrorEnvelopeUnflagged(message) ==
    [ content |-> << TextBlock("message", message, NoJson, NoResult) >>,
      isError |-> "absent" ]

\* { content: [{ type: 'text', text }], isError: true }
ErrorEnvelope(message) ==
    [ content |-> << TextBlock("message", message, NoJson, NoResult) >>,
      isError |-> "true" ]

\* { content: [{ type: 'text', text: JSON.stringify(data, null, 2) }] }: the
\* handlers set no isError key on success
JsonEnvelope(json) ==
    [ content |-> << TextBlock("json", NoMessage, json, NoResult) >>,
      isError |-> "absent" ]

ResultEnvelope(result) ==
    [ content |-> << TextBlock("result", NoMessage, NoJson, result) >>,
      isError |-> "absent" ]

\* error instanceof Error ? error.message : String(error), behind a fixed prefix
Prefixed(prefix, message) == [ message EXCEPT !.prefix = <<prefix>> \o @ ]

-----------------------------------------------------------------------------
(* The operation catalog *)

\* The tools the list-tools handler of index.ts returns, in order
ReadToolNames ==
    << "list_projects", "project_overview", "usage_by_model", "usage_by_service",
       "top_expensive_traces", "get_trace_detail", "get_projects", "get_metrics",
       "get_traces", "get_observations", "get_cost_analysis", "get_daily_metrics",
       "get_observation_detail", "get_health_status", "list_models",
       "get_model_detail", "list_prompts", "get_prompt_detail" >>

Range(s) == { s[j] : j \in 1..Len(s) }

\* The one-call tools whose handlers are in the sources: schema, client
\* operation and the prefix of the handler's own error text
ThinTools ==
    [ list_prompts      |-> [ op |-> "listPrompts", prefix |-> "Error listing prompts: " ],
      get_model_detail  |-> [ op |-> "getModel", prefix |-> "Error getting model detail: " ],
      get_prompt_detail |-> [ op |-> "getPrompt", prefix |-> "Error getting prompt detail: " ],
      list_models       |-> [ op |-> "listModels", prefix |-> "Error listing models: " ],
      get_health_status |-> [ op |-> "getHealthStatus", prefix |-> "Error getting health status: " ] ]

ThinParse(name, raw) ==
    CASE name = "list_prompts"      -> ZodParse(listPromptsSchema, raw)
      [] name = "get_model_detail"  -> ZodParse(getModelDetailSchema, raw)
      [] name = "get_prompt_detail" -> ZodParse(getPromptDetailSchema, raw)
      [] name = "list_models"       -> ZodParse(listModelsSchema, raw)
      [] OTHER                      -> ZodParse(getHealthStatusSchema, raw)

ThinRequest(cfg, name, args) ==
    CASE name = "list_prompts"      -> listPromptsRequest(cfg, args)
      [] name = "get_model_detail"  -> getModelRequest(cfg, args)
      [] name = "get_prompt_detail" -> getPromptRequest(cfg, args)
      [] name = "list_models"       -> listModelsRequest(cfg, args)
      [] OTHER                      -> getHealthStatusRequest(cfg)

\* Raw arguments the model sends to the one-call tools
ThinArgs ==
    { NoArgs, EmptyObject,
      Obj([ limit |-> Num(10), name |-> Str("greeting") ]),
      Obj([ modelId |-> Str("m1"), extra |-> Str("x") ]),
      Obj([ promptName |-> Str("greeting"), version |-> Num(0) ]),
      Obj([ limit |-> Str("10") ]) }

ThinResponses ==
    { OkResponse([ data |-> Str("payload") ]), NetworkFailure } \cup ErrorResponses

\* error.message of a ZodError: the issues found
ZodErrorMessage(issues) ==
    [ NoMessage EXCEPT !.template = "${issues}", !.issues = issues ]

\* throw new Error(`Unknown tool: ${request.params.name}`)
UnknownToolMessage(name) ==
    [ NoMessage EXCEPT !.template = "Unknown tool: ${name}", !.name = name ]

\* A variant of the dispatcher's catch that omits isError
DispatcherErrorUnflagged(message) ==
    [ ErrorEnvelope(Prefixed("Error: ", message)) EXCEPT !.isError = "absent" ]

\* The dispatcher's catch: text: `Error: ${errorMessage}`, isError: true
DispatcherError(message) == ErrorEnvelope(Prefixed("Error: ", message))

-----------------------------------------------------------------------------
(* The write tools, the capability mode gate and the audit logger.  Their   *)
(* code (mode-config.ts, the write tools' handlers and their dispatch) is   *)
(* not among the sources; it is modelled from the specification: the mode   *)
(* gate, then the confirmation gate, then validation, then the client call, *)
(* then one audit record.  The client operations they call are in part_003. *)

WritePrefix == "write_"

WriteTools ==
    [ create_dataset      |-> [ op |-> "createDataset", destructive |-> FALSE,
                                required |-> "name" ],
      create_comment      |-> [ op |-> "createComment", destructive |-> FALSE,
                                required |-> "content" ],
      delete_dataset_item |-> [ op |-> "deleteDatasetItem", destructive |-> TRUE,
                                required |-> "itemId" ] ]

\* The name a write tool is visible and callable under
VisibleName(base) == WritePrefix \o base

WriteToolNames == { VisibleName(b) : b \in DOMAIN WriteTools }

BaseName(name) == CHOOSE b \in DOMAIN WriteTools : VisibleName(b) = name

IsMutating(name) == name \in WriteToolNames

IsDestructive(name) == IsMutating(name) /\ WriteTools[BaseName(name)].destructive

\* One entry of the discovery list
Descriptor(name, mutating) == [ name |-> name, mutating |-> mutating ]

WriteDescriptors ==
    << Descriptor(VisibleName("create_dataset"), TRUE),
       Descriptor(VisibleName("create_comment"), TRUE),
       Descriptor(VisibleName("delete_dataset_item"), TRUE) >>

\* A variant of listTools that lists the write tools in every mode
listToolsUnfiltered(m) ==
    [ k \in DOMAIN ReadToolNames |-> Descriptor(ReadToolNames[k], FALSE) ] \o WriteDescriptors

\* tools/list: the read tools of index.ts, and in READWRITE the write tools
\* under their prefixed names
listTools(m) ==
    [ k \in DOMAIN ReadToolNames |-> Descriptor(ReadToolNames[k], FALSE) ]
      \o (IF m = "READWRITE" THEN WriteDescriptors ELSE <<>>)

\* A variant of authorize that lets every call through
authorizeAlways(name, m) == TRUE

\* authorize(operationName): a mutating operation needs READWRITE
authorize(name, m) == ~IsMutating(name) \/ m = "READWRITE"

ModeViolationMessage(name) ==
    [ NoMessage EXCEPT !.template = "ModeViolation: ${name} is not allowed in READONLY mode",
                       !.name = name ]

ConfirmationRequiredMessage(name) ==
    [ NoMessage EXCEPT !.template = "ConfirmationRequired: ${name} needs confirmed: true",
                       !.name = name ]

WriteSchema(name) ==
    [ a \in { WriteTools[BaseName(name)].required } |-> ZString ]

\* part_003: createDataset, createComment (POST with a JSON body),
\* deleteDatasetItem (DELETE on the item's path)
WriteRequest(cfg, name, args) ==
    CASE name = VisibleName("create_dataset") ->
           Request(cfg, "createDataset", "POST", <<"/api/public/v2/datasets">>, <<>>, TRUE)
      [] name = VisibleName("create_comment") ->
           Request(cfg, "createComment", "POST", <<"/api/public/comments">>, <<>>, TRUE)
      [] OTHER ->
           Request(cfg, "deleteDatasetItem", "DELETE",
                   <<"/api/public/dataset-items/", args.itemId.s>>, <<>>, TRUE)

WriteArgs ==
    { EmptyObject,
      Obj([ name |-> Str("ds"), content |-> Str("hi"), itemId |-> Str("it1") ]),
      Obj([ name |-> Str("ds"), content |-> Str("hi"), itemId |-> Str("it1"),
            confirmed |-> Bool(TRUE) ]),
      Obj([ itemId |-> Str("it1"), confirmed |-> Bool(FALSE) ]) }

WriteResponses ==
    { OkResponse([ data |-> Str("payload") ]), NetworkFailure,
      ErrorResponse(500, "Internal Server Error", "stack trace") }

\* The explicit confirmation flag in the call arguments
HasConfirmation(raw) == raw.k = "object" /\ raw.f.confirmed = Bool(TRUE)

\* A variant of WriteDecision without the confirmation gate
WriteDecisionUngated(name, raw, m) ==
    IF ~authorize(name, m) THEN "denied"
    ELSE IF ~ZodParse(WriteSchema(name), raw).ok THEN "invalid"
    ELSE "call"

\* What the gates decide before any network call: "call" lets the call through
WriteDecision(name, raw, m) ==
    IF ~authorize(name, m) THEN "denied"
    ELSE IF IsDestructive(name) /\ ~HasConfirmation(raw) THEN "unconfirmed"
    ELSE IF ~ZodParse(WriteSchema(name), raw).ok THEN "invalid"
    ELSE "call"

WriteRefusal(name, raw, decision) ==
    CASE decision = "denied"  -> DispatcherError(ModeViolationMessage(name))
      [] decision = "invalid" ->
           DispatcherError(ZodErrorMessage(ZodParse(WriteSchema(name), raw).issues))
      [] OTHER -> DispatcherError(ConfirmationRequiredMessage(name))

\* record(operationName, objectReference, outcome): one append to the sink; a
\* failing sink is swallowed (the record is kept with written = FALSE)
AuditRecord(i, name, outcome, sinkOk) ==
    [ call |-> i, operationName |-> name, outcome |-> outcome, written |-> sinkOk ]

\* A variant of auditOnStart that records the call before it runs
auditOnStartEager(log, i, name, sinkOk) ==
    Append(log, [ call |-> i, operationName |-> name, outcome |-> "started",
                  written |-> sinkOk ])

\* The audit records appended when a write call is accepted for execution,
\* before its client call: none
auditOnStart(log, i, name, sinkOk) == log

\* The audit records appended once a write call has its outcome
auditOnCompletion(log, i, name, outcome, sinkOk) ==
    Append(log, AuditRecord(i, name, outcome, sinkOk))

-----------------------------------------------------------------------------
(* State machine: startup and the call-tool handler *)

NoLocal ==
    [ args |-> EmptyObject.f, dailyData |-> <<>>, totalCost |-> 0,
      byModel |-> Undefined, logged |-> <<>> ]

NoProbe == [ fn |-> "none" ]

InitCalls ==
    /\ pc = [ i \in Calls |-> "idle" ]
    /\ callName = [ i \in Calls |-> "" ]
    /\ callArgs = [ i \in Calls |-> NoArgs ]
    /\ local = [ i \in Calls |-> NoLocal ]
    /\ requests = [ i \in Calls |-> <<>> ]
    /\ envelope = [ i \in Calls |-> Pending ]
    /\ auditLog = <<>>
    /\ probe = NoProbe

\* The process before the server object is constructed
Starting(envs) ==
    /\ env \in envs
    /\ server = "starting"
    /\ config = NoConfig
    /\ mode = "READONLY"
    /\ clientImpl \in ClientImpls
    /\ InitCalls

Init == Starting(FewEnvs)

\* new LangfuseAnalyticsServer(): getProjectConfig() throws or the client is
\* built from the configuration; the capability mode is fixed here
Startup ==
    /\ server = "starting"
    /\ LET r == getProjectConfig(env)
       IN  IF r.ok
           THEN /\ server' = "running"
                /\ config' = r.config
                /\ mode' = getServerMode(env)
           ELSE /\ server' = "failed"
                /\ UNCHANGED <<config, mode>>
    /\ UNCHANGED <<env, clientImpl, pc, callName, callArgs, local, requests,
                   envelope, auditLog, probe>>

\* A request may arrive on slot i once the server runs; slots fill in order
CanInvoke(i) ==
    /\ server = "running"
    /\ pc[i] = "idle"
    /\ \A j \in Calls : j < i => pc[j] # "idle"

Arrive(i, name, raw) ==
    /\ callName' = [ callName EXCEPT ![i] = name ]
    /\ callArgs' = [ callArgs EXCEPT ![i] = raw ]

\* A variant of Return in which an error envelope also ends every other call
\* that waits for the backend
ReturnCancellingOthers(i, e) ==
    LET Hit(j) == j = i \/ (e.isError = "true" /\ pc[j] \notin { "idle", "done", "listed" })
    IN  /\ pc' = [ j \in Calls |-> IF Hit(j) THEN "done" ELSE pc[j] ]
        /\ envelope' = [ j \in Calls |-> IF Hit(j) THEN e ELSE envelope[j] ]

Return(i, e) ==
    /\ pc' = [ pc EXCEPT ![i] = "done" ]
    /\ envelope' = [ envelope EXCEPT ![i] = e ]

Send(i, req, at) ==
    /\ requests' = [ requests EXCEPT ![i] = Append(@, req) ]
    /\ pc' = [ pc EXCEPT ![i] = at ]

KnownNames == Range(ReadToolNames) \cup WriteToolNames

UnknownNames == { "no_such_tool", "delete_everything" }

\* Inputs cut down for runs with several calls in flight
FewThinTools == { "list_prompts", "get_model_detail", "get_health_status" }

FewThinArgs ==
    { EmptyObject, Obj([ limit |-> Num(10), name |-> Str("greeting"), modelId |-> Str("m1") ]) }

FewThinResponses ==
    { OkResponse([ data |-> Str("payload") ]),
      ErrorResponse(500, "Internal Server Error", "db password=hunter2") }

FewWriteTools == { VisibleName("create_dataset"), VisibleName("delete_dataset_item") }

FewWriteArgs ==
    { Obj([ name |-> Str("ds"), itemId |-> Str("it1") ]),
      Obj([ name |-> Str("ds"), itemId |-> Str("it1"), confirmed |-> Bool(TRUE) ]) }

FewWriteResponses == { OkResponse([ data |-> Str("payload") ]), NetworkFailure }

\* The ListTools handler: the catalog the mode makes visible
ListTools(i) ==
    /\ CanInvoke(i)
    /\ pc' = [ pc EXCEPT ![i] = "listed" ]
    /\ envelope' = [ envelope EXCEPT ![i] = [ tools |-> listTools(mode) ] ]
    /\ UNCHANGED <<env, server, config, mode, clientImpl, callName, callArgs,
                   local, requests, auditLog, probe>>

\* A variant of getConfig that hands out the client's own object
getConfigShared(cfg) == [ shared |-> TRUE, value |-> cfg ]

\* getConfig(): { ...this.config }, a new object with the same fields
getConfig(cfg) == [ shared |-> FALSE, value |-> cfg ]

\* A caller of getConfig() writes to a field of the object it was given; the
\* client's configuration follows only if that object is the client's own
GetConfig(key) ==
    /\ server = "running"
    /\ LET got == getConfig(config)
       IN  config' = IF got.shared THEN [ got.value EXCEPT ![key] = <<>> ] ELSE config
    /\ UNCHANGED <<env, server, mode, clientImpl, pc, callName, callArgs, local,
                   requests, envelope, auditLog, probe>>

\* default: throw new Error(`Unknown tool: ...`), caught by the handler's catch
InvokeUnknown(i, name, raw) ==
    /\ CanInvoke(i)
    /\ name \notin KnownNames
    /\ Arrive(i, name, raw)
    /\ Return(i, DispatcherError(UnknownToolMessage(name)))
    /\ UNCHANGED <<env, server, config, mode, clientImpl, local, requests,
                   auditLog, probe>>

\* case '<tool>': schema.parse(arguments), then the handler's client call
InvokeThin(i, name, raw) ==
    /\ CanInvoke(i)
    /\ name \in DOMAIN ThinTools
    /\ Arrive(i, name, raw)
    /\ LET parsed == ThinParse(name, raw)
       IN  IF parsed.ok
           THEN /\ Send(i, ThinRequest(config, name, parsed.args), "awaitHttp")
                /\ UNCHANGED envelope
           ELSE /\ Return(i, DispatcherError(ZodErrorMessage(parsed.issues)))
                /\ UNCHANGED requests
    /\ UNCHANGED <<env, server, config, mode, clientImpl, local, auditLog, probe>>

\* A variant of ThinResponds whose client sends a failed request once more
ThinRespondsRetrying(i, response) ==
    /\ pc[i] = "awaitHttp"
    /\ LET out == ClientOutcome(clientImpl, requests[i][Len(requests[i])], response)
       IN  IF out.threw /\ Len(requests[i]) = 1
           THEN /\ Send(i, requests[i][1], "awaitHttp")
                /\ UNCHANGED envelope
           ELSE /\ Return(i, IF out.threw
                             THEN ErrorEnvelope(Prefixed(ThinTools[callName[i]].prefix, out.message))
                             ELSE JsonEnvelope(out.json))
                /\ UNCHANGED requests
    /\ UNCHANGED <<env, server, config, mode, clientImpl, callName, callArgs,
                   local, auditLog, probe>>

\* The handler resumes: JSON of the data, or its own catch's error envelope
ThinResponds(i, response) ==
    /\ pc[i] = "awaitHttp"
    /\ LET out == ClientOutcome(clientImpl, requests[i][Len(requests[i])], response)
       IN  Return(i, IF out.threw
                     THEN ErrorEnvelope(Prefixed(ThinTools[callName[i]].prefix, out.message))
                     ELSE JsonEnvelope(out.json))
    /\ UNCHANGED <<env, server, config, mode, clientImpl, callName, callArgs,
                   local, requests, auditLog, probe>>

\* A write tool: the gates first; a refused call is audited and answered at
\* once, an accepted one issues its client call
InvokeWrite(i, name, raw, sinkOk) ==
    /\ CanInvoke(i)
    /\ name \in WriteToolNames
    /\ Arrive(i, name, raw)
    /\ LET decision == WriteDecision(name, raw, mode)
       IN  IF decision = "call"
           THEN /\ Send(i, WriteRequest(config, name, raw.f), "awaitWrite")
                /\ auditLog' = auditOnStart(auditLog, i, name, sinkOk)
                /\ UNCHANGED envelope
           ELSE /\ Return(i, WriteRefusal(name, raw, decision))
                /\ auditLog' = auditOnCompletion(auditLog, i, name, decision, sinkOk)
                /\ UNCHANGED requests
    /\ UNCHANGED <<env, server, config, mode, clientImpl, local, probe>>

WriteResponds(i, response, sinkOk) ==
    /\ pc[i] = "awaitWrite"
    /\ LET out == ClientOutcome(clientImpl, requests[i][Len(requests[i])], response)
       IN  /\ Return(i, IF out.threw THEN DispatcherError(out.message)
                                     ELSE JsonEnvelope(out.json))
           /\ auditLog' = auditOnCompletion(auditLog, i, callName[i],
                                            IF out.threw THEN "failure" ELSE "success",
                                            sinkOk)
    /\ UNCHANGED <<env, server, config, mode, clientImpl, callName, callArgs,
                   local, requests, probe>>

-----------------------------------------------------------------------------
(* get_cost_analysis as the handler runs it: two awaits *)

\* tags: args.environment ? [`environment:${args.environment}`] : undefined
getDailyMetricsRequest(cfg, args) ==
    Request(cfg, "getDailyMetrics", "GET", <<"/api/public/metrics/daily">>,
            IF Truthy(args.environment)
            THEN << <<"tags", "environment:" \o args.environment.s>> >>
            ELSE <<>>,
            TRUE)

\* the query object is sent url-encoded in the one parameter `query`
getMetricsRequest(cfg, args) ==
    Request(cfg, "getMetrics", "GET", <<"/api/public/metrics">>,
            << <<"query", "view=traces;metrics=totalCost_sum,totalTokens_sum,count_count;dimensions=userId">> >>,
            TRUE)

\* What the handler's catch blocks write to console.error
DailyErrorLog == "Error getting daily data for total calculation:"

UserErrorLog == "Error fetching user breakdown:"

\* byModel after the daily fetch: absent unless the flag is set
ByModelOf(args, dailyData, totalCost) ==
    IF Truthy(args.includeModelBreakdown)
    THEN Arr(ModelBreakdown(dailyData, totalCost, args.limit.n))
    ELSE Undefined

\* A variant of ByUserOf whose catch block leaves byUser unset
ByUserOfUnsetOnCatch(args, out, totalCost) ==
    IF out.threw THEN Undefined
    ELSE Arr(UserBreakdown(out.json, totalCost, args.limit.n))

\* byUser once the metrics call has an outcome: [] when it threw
ByUserOf(args, out, totalCost) ==
    IF out.threw THEN Arr(<<>>)
    ELSE Arr(UserBreakdown(out.json, totalCost, args.limit.n))

\* A variant of ByDayOf that leaves out the days without a cost
ByDayOfSkippingFreeDays(args, dailyData) ==
    LET HasCost(day) == DayCost(day) > 0
    IN  IF Truthy(args.includeDailyBreakdown)
        THEN Arr(DailyBreakdown(FilterSeq(HasCost, dailyData)))
        ELSE Undefined

\* byDay: absent unless the flag is set
ByDayOf(args, dailyData) ==
    IF Truthy(args.includeDailyBreakdown) THEN Arr(DailyBreakdown(dailyData)) ELSE Undefined

CostResult(cfg, l, byUser) ==
    [ projectId |-> cfg.id, from |-> l.args.from, to |-> l.args.to,
      totalCost |-> l.totalCost,
      breakdown |-> [ byModel |-> l.byModel, byUser |-> byUser,
                      byDay |-> ByDayOf(l.args, l.dailyData) ] ]

\* getCostAnalysis(client, args) up to its first await
StartCostAnalysis(i, args) ==
    /\ local' = [ local EXCEPT ![i] = [ NoLocal EXCEPT !.args = args ] ]
    /\ Send(i, getDailyMetricsRequest(config, args), "awaitDaily")
    /\ UNCHANGED envelope

\* A variant of InvokeCostAnalysis whose daily fetch goes out before the
\* arguments are looked at
InvokeCostAnalysisFetchingFirst(i, raw) ==
    /\ CanInvoke(i)
    /\ Arrive(i, "get_cost_analysis", raw)
    /\ LET parsed == ZodParse(getCostAnalysisSchema, raw)
       IN  IF parsed.ok
           THEN StartCostAnalysis(i, parsed.args)
           ELSE /\ requests' = [ requests EXCEPT ![i] =
                                   Append(@, getDailyMetricsRequest(config, parsed.args)) ]
                /\ Return(i, DispatcherError(ZodErrorMessage(parsed.issues)))
                /\ UNCHANGED local
    /\ UNCHANGED <<env, server, config, mode, clientImpl, auditLog, probe>>

\* case 'get_cost_analysis': getCostAnalysisSchema.parse, then the handler
InvokeCostAnalysis(i, raw) ==
    /\ CanInvoke(i)
    /\ Arrive(i, "get_cost_analysis", raw)
    /\ LET parsed == ZodParse(getCostAnalysisSchema, raw)
       IN  IF parsed.ok
           THEN StartCostAnalysis(i, parsed.args)
           ELSE /\ Return(i, DispatcherError(ZodErrorMessage(parsed.issues)))
                /\ UNCHANGED <<local, requests>>
    /\ UNCHANGED <<env, server, config, mode, clientImpl, auditLog, probe>>

\* getCostAnalysis(client, { from, to }) called as a function, the way the
\* endpoint tests call it: the handler gets the caller's object as it is, no
\* schema has filled in a default, and no tool request names the call
CallCostAnalysis(i, raw) ==
    /\ CanInvoke(i)
    /\ StartCostAnalysis(i, raw.f)
    /\ UNCHANGED <<env, server, config, mode, clientImpl, callName, callArgs,
                   auditLog, probe>>

\* A variant of DailyResponds that makes the metrics call whatever the flag
DailyRespondsAlwaysFetchingUsers(i, response) ==
    /\ pc[i] = "awaitDaily"
    /\ LET out == ClientOutcome(clientImpl, requests[i][Len(requests[i])], response)
           args == local[i].args
           dailyData == IF out.threw THEN <<>> ELSE DailyDataOf(out.json, args.from, args.to)
           totalCost == TotalCostOf(dailyData)
           l == [ local[i] EXCEPT !.dailyData = dailyData, !.totalCost = totalCost,
                                  !.byModel = ByModelOf(args, dailyData, totalCost),
                                  !.logged = IF out.threw THEN Append(@, DailyErrorLog) ELSE @ ]
       IN  /\ local' = [ local EXCEPT ![i] = l ]
           /\ Send(i, getMetricsRequest(config, args), "awaitUser")
           /\ UNCHANGED envelope
    /\ UNCHANGED <<env, server, config, mode, clientImpl, callName, callArgs,
                   auditLog, probe>>

\* The daily fetch settles: total and model breakdown from the daily rows
\* (none when it threw); then the metrics call, or straight to the result
DailyResponds(i, response) ==
    /\ pc[i] = "awaitDaily"
    /\ LET out == ClientOutcome(clientImpl, requests[i][Len(requests[i])], response)
           args == local[i].args
           dailyData == IF out.threw THEN <<>> ELSE DailyDataOf(out.json, args.from, args.to)
           totalCost == TotalCostOf(dailyData)
           l == [ local[i] EXCEPT !.dailyData = dailyData, !.totalCost = totalCost,
                                  !.byModel = ByModelOf(args, dailyData, totalCost),
                                  !.logged = IF out.threw THEN Append(@, DailyErrorLog) ELSE @ ]
       IN  /\ local' = [ local EXCEPT ![i] = l ]
           /\ IF Truthy(args.includeUserBreakdown)
              THEN /\ Send(i, getMetricsRequest(config, args), "awaitUser")
                   /\ UNCHANGED envelope
              ELSE /\ Return(i, ResultEnvelope(CostResult(config, l, Undefined)))
                   /\ UNCHANGED requests
    /\ UNCHANGED <<env, server, config, mode, clientImpl, callName, callArgs,
                   auditLog, probe>>

\* The metrics call settles: the user breakdown, the daily breakdown, the result
UserResponds(i, response) ==
    /\ pc[i] = "awaitUser"
    /\ LET out == ClientOutcome(clientImpl, requests[i][Len(requests[i])], response)
           l == local[i]
       IN  /\ Return(i, ResultEnvelope(CostResult(config, l, ByUserOf(l.args, out, l.totalCost))))
           /\ local' = [ local EXCEPT ![i].logged =
                           IF out.threw THEN Append(@, UserErrorLog) ELSE @ ]
    /\ UNCHANGED <<env, server, config, mode, clientImpl, callName, callArgs,
                   requests, auditLog, probe>>

-----------------------------------------------------------------------------
(* Specifications *)

\* The server with several calls in flight, over cut-down inputs
Next ==
    \/ Startup
    \/ \E i \in Calls : ListTools(i)
    \/ \E i \in Calls, name \in UnknownNames : InvokeUnknown(i, name, EmptyObject)
    \/ \E i \in Calls, name \in FewThinTools, raw \in FewThinArgs :
         InvokeThin(i, name, raw)
    \/ \E i \in Calls, response \in FewThinResponses : ThinResponds(i, response)
    \/ \E i \in Calls, name \in FewWriteTools, raw \in FewWriteArgs, sinkOk \in BOOLEAN :
         InvokeWrite(i, name, raw, sinkOk)
    \/ \E i \in Calls, response \in FewWriteResponses, sinkOk \in BOOLEAN :
         WriteResponds(i, response, sinkOk)
    \/ \E i \in Calls, raw \in FewCostArgs : InvokeCostAnalysis(i, raw)
    \/ \E i \in Calls, response \in FewDailyResponses : DailyResponds(i, response)
    \/ \E i \in Calls, response \in FewUserResponses : UserResponds(i, response)

Spec == Init /\ [][Next]_vars

\* One call at a time from every environment, over the full range of tool
\* names, arguments and backend responses
InitCall == Starting(Envs)

NextCall ==
    \/ Startup
    \/ ListTools(1)
    \/ \E name \in UnknownNames, raw \in { NoArgs, EmptyObject } :
         InvokeUnknown(1, name, raw)
    \/ \E name \in DOMAIN ThinTools, raw \in ThinArgs : InvokeThin(1, name, raw)
    \/ \E response \in ThinResponses : ThinResponds(1, response)
    \/ \E name \in WriteToolNames, raw \in WriteArgs, sinkOk \in BOOLEAN :
         InvokeWrite(1, name, raw, sinkOk)
    \/ \E response \in WriteResponses, sinkOk \in BOOLEAN :
         WriteResponds(1, response, sinkOk)

SpecCall == InitCall /\ [][NextCall]_vars

\* No call is waiting for the backend
Quiet == \A j \in Calls : pc[j] \in { "idle", "done", "listed" }

\* A session of calls made one after the other, each arriving once the one
\* before it has returned, with reads of the configuration in between
NextSequence ==
    \/ Startup
    \/ \E key \in { "baseUrl", "secretKey" } : GetConfig(key)
    \/ Quiet /\ \E i \in Calls : ListTools(i)
    \/ Quiet /\ \E i \in Calls, name \in UnknownNames : InvokeUnknown(i, name, EmptyObject)
    \/ Quiet /\ \E i \in Calls, name \in FewThinTools, raw \in FewThinArgs :
                   InvokeThin(i, name, raw)
    \/ \E i \in Calls, response \in FewThinResponses : ThinResponds(i, response)
    \/ Quiet /\ \E i \in Calls, name \in FewWriteTools, raw \in FewWriteArgs,
                      sinkOk \in BOOLEAN : InvokeWrite(i, name, raw, sinkOk)
    \/ \E i \in Calls, response \in FewWriteResponses, sinkOk \in BOOLEAN :
         WriteResponds(i, response, sinkOk)
    \/ Quiet /\ \E i \in Calls, raw \in FewCostArgs : InvokeCostAnalysis(i, raw)
    \/ \E i \in Calls, response \in FewDailyResponses : DailyResponds(i, response)
    \/ \E i \in Calls, response \in FewUserResponses : UserResponds(i, response)

SpecSequence == Init /\ [][NextSequence]_vars

\* One get_cost_analysis call over the full range of backend data
InitCost ==
    /\ env = BaseEnv
    /\ server = "running"
    /\ config = getProjectConfig(BaseEnv).config
    /\ mode = getServerMode(BaseEnv)
    /\ clientImpl \in ClientImpls
    /\ InitCalls

NextCost ==
    \/ \E raw \in CostArgs : InvokeCostAnalysis(1, raw)
    \/ \E response \in DailyResponses : DailyResponds(1, response)
    \/ \E response \in UserResponses : UserResponds(1, response)

SpecCost == InitCost /\ [][NextCost]_vars

\* One get_cost_analysis call over data with more model names and more users
\* than the smallest limit admits, arriving out of date and out of cost order
BreakdownDays ==
    { Day(Str("2024-01-01"), Num(300), Arr(<<Gpt4A, Claude, Anon>>), Num(6)),
      Day(Str("2024-01-02"), Num(160), Arr(<<Mistral, Gemini>>), Num(2)),
      Day(Str("2024-01-01"), Num(100000), Arr(<<Llama>>), Num(9)) }

Undated == Day(Str("not a date"), Num(100), Arr(<<Gpt4A>>), Num(1))

BreakdownDailyResponses ==
    { OkResponse([ data |-> Arr(days) ]) : days \in SeqsUpTo(BreakdownDays, MaxDays) }
      \cup { OkResponse([ data |-> Arr(<<Undated>> \o days) ]) :
                days \in SeqsUpTo(BreakdownDays, 1) }
      \cup { OkResponse([ data |-> Undefined ]), NetworkFailure }

BreakdownUserResponses ==
    { OkResponse([ data |-> Arr(<<NoUser, Erin, Bob, Alice, Carol, Dave, Frank>>) ]),
      OkResponse([ data |-> Arr(<<Alice, Bob>>) ]),
      ErrorResponse(500, "Internal Server Error", "stack trace") }

BreakdownArgs ==
    { Obj(w @@ flags) :
        w \in { Window("2024-01-01T00:00:00Z", "2024-01-03T00:00:00Z"),
                Window("2024-01-01T12:00:00Z", "2024-01-02T00:00:00Z"),
                Window("2024-01-02T12:00:00Z", "2024-01-01T00:00:00Z") },
        flags \in { [ extra |-> Undefined ],
                    [ limit |-> Num(5) ],
                    [ includeUserBreakdown |-> Bool(FALSE) ] } }

NextBreakdown ==
    \/ \E raw \in BreakdownArgs : InvokeCostAnalysis(1, raw)
    \/ \E response \in BreakdownDailyResponses : DailyResponds(1, response)
    \/ \E response \in BreakdownUserResponses : UserResponds(1, response)

SpecBreakdown == InitCost /\ [][NextBreakdown]_vars

\* One cost analysis asked with a window and nothing else, through the
\* dispatcher or by calling the handler as a function
WindowOnlyArgs ==
    { Obj(w) : w \in { Window("2024-01-01T00:00:00Z", "2024-01-03T00:00:00Z"),
                       Window("2024-01-01T12:00:00Z", "2024-01-02T00:00:00Z"),
                       Window("2024-01-02T12:00:00Z", "2024-01-01T00:00:00Z") } }

NextDirect ==
    \/ \E raw \in WindowOnlyArgs : InvokeCostAnalysis(1, raw)
    \/ \E raw \in WindowOnlyArgs : CallCostAnalysis(1, raw)
    \/ \E response \in BreakdownDailyResponses : DailyResponds(1, response)
    \/ \E response \in BreakdownUserResponses : UserResponds(1, response)

SpecDirect == InitCost /\ [][NextDirect]_vars

\* One cost analysis over usage rows whose costs and tokens reach the limit of
\* the significand, where an addition rounds
HugeLlama == UsageRow(Str("llama"), Num(BigCost), Num(BigCost), Undefined, Undefined, Num(1))

OneLlama == UsageRow(Str("llama"), Num(1), Num(1), Undefined, Undefined, Num(1))

OneMistral == UsageRow(Str("mistral"), Num(1), Undefined, Num(1), Num(0), Num(1))

SumsDays ==
    { Day(Str("2024-01-01"), Num(BigCost), Arr(<<HugeLlama, OneLlama>>), Num(2)),
      Day(Str("2024-01-02"), Undefined, Arr(<<OneMistral, Claude>>), Num(2)),
      Day(Str("2024-01-01"), Num(100), Arr(<<OneMistral, Gpt4A, Anon>>), Num(3)) }

SumsDailyResponses ==
    { OkResponse([ data |-> Arr(days) ]) : days \in SeqsUpTo(SumsDays, MaxDays) }
      \cup { OkResponse([ data |-> Undefined ]), NetworkFailure }

SumsArgs ==
    { Obj(w @@ flags) :
        w \in { Window("2024-01-01T00:00:00Z", "2024-01-03T00:00:00Z"),
                Window("2024-01-01T12:00:00Z", "2024-01-02T00:00:00Z") },
        flags \in { [ extra |-> Undefined ],
                    [ includeUserBreakdown |-> Bool(FALSE), limit |-> Num(5) ],
                    [ includeModelBreakdown |-> Bool(FALSE) ],
                    [ includeDailyBreakdown |-> Bool(FALSE) ] } }

NextSums ==
    \/ \E raw \in SumsArgs : InvokeCostAnalysis(1, raw)
    \/ \E response \in SumsDailyResponses : DailyResponds(1, response)
    \/ \E response \in FewUserResponses : UserResponds(1, response)

SpecSums == InitCost /\ [][NextSums]_vars

-----------------------------------------------------------------------------
(* listTraces, the one operation that hands its URL to the error path, and
   the sanitizer that URL goes through before it is logged *)

MaxParams == 2

\* A variant of listTracesRequest that forwards whatever order field it is given
listTracesRequestAnyField(cfg, params) ==
    Request(cfg, "listTraces", "GET", <<"/api/public/traces">>,
            AppendTruthy(<<"page", "limit", "name", "userId">>, params)
              \o (IF Truthy(params.orderBy)
                  THEN << <<"order_by",
                            params.orderBy.s
                              \o (IF params.orderDirection = Str("asc") THEN " ASC" ELSE " DESC")>> >>
                  ELSE <<>>)
              \o AppendTruthy(<<"fromTimestamp", "toTimestamp">>, params)
              \o [ k \in DOMAIN params.tags |-> <<"tags", params.tags[k]>> ],
            TRUE)

\* `${baseUrl}/api/public/traces?${queryParams}`: every truthy parameter is
\* appended once, orderBy as order_by with its direction, each tag on its own
listTracesRequest(cfg, params) ==
    Request(cfg, "listTraces", "GET", <<"/api/public/traces">>,
            AppendTruthy(<<"page", "limit", "name", "userId">>, params)
              \o (IF Truthy(params.orderBy)
                     /\ params.orderBy.s \in { "timestamp", "name", "totalCost" }
                  THEN << <<"order_by",
                            params.orderBy.s
                              \o (IF params.orderDirection = Str("asc") THEN " ASC" ELSE " DESC")>> >>
                  ELSE <<>>)
              \o AppendTruthy(<<"fromTimestamp", "toTimestamp">>, params)
              \o [ k \in DOMAIN params.tags |-> <<"tags", params.tags[k]>> ],
            TRUE)

AllowedParams == { "limit", "page", "view", "orderBy", "orderDirection" }

RedactionMarker == "[REDACTED]"

\* How URLSearchParams.toString() writes a value (application/x-www-form-
\* urlencoded), on the values of this model: letters and digits stay, a space
\* becomes '+', brackets are percent-encoded
FormEncode(value) ==
    CASE value = RedactionMarker  -> "%5BREDACTED%5D"
      [] value = "totalCost DESC" -> "totalCost+DESC"
      [] value = "timestamp ASC"  -> "timestamp+ASC"
      [] value = "a b"            -> "a+b"
      [] OTHER                    -> value

\* How url.searchParams reads a value back from the query string
FormDecode(text) ==
    CASE text = "totalCost+DESC" -> "totalCost DESC"
      [] text = "timestamp+ASC"  -> "timestamp ASC"
      [] text = "a+b"            -> "a b"
      [] text = "a%20b"          -> "a b"
      [] OTHER                   -> text

\* URLSearchParams.set: the first pair of that name takes the value and the
\* later ones go; a new name is appended
ParamsSet(pairs, key, value) ==
    IF \E k \in DOMAIN pairs : pairs[k][1] = key
    THEN LET first == CHOOSE k \in DOMAIN pairs :
                        /\ pairs[k][1] = key
                        /\ \A j \in 1..(k - 1) : pairs[j][1] # key
             marked == [ k \in DOMAIN pairs |->
                           IF k = first THEN <<key, value>>
                           ELSE IF pairs[k][1] = key THEN <<"", "dropped">>
                           ELSE pairs[k] ]
         IN  FilterSeq(LAMBDA p : p[1] # "", marked)
    ELSE Append(pairs, <<key, value>>)

\* The loop over urlObj.searchParams
RECURSIVE SanitizedParams(_, _)
SanitizedParams(query, acc) ==
    IF query = <<>> THEN acc
    ELSE LET key == Head(query)[1]
             value == FormDecode(Head(query)[2])
         IN  SanitizedParams(Tail(query),
                 ParamsSet(acc, key,
                           IF key \in AllowedParams THEN value ELSE RedactionMarker))

InvalidUrlPlaceholder == [ pathname |-> <<"/api/[INVALID_URL]">>, query |-> <<>> ]

\* new URL(url) throws on a URL with no scheme and host; otherwise the
\* result is pathname, then '?' and the serialised pairs when there are any
sanitizeUrlForLogging(url) ==
    IF ~StartsWith(url.base, HttpsPrefix) \/ Len(url.base) = Len(HttpsPrefix)
    THEN InvalidUrlPlaceholder
    ELSE [ pathname |-> url.path,
           query |-> LET pairs == SanitizedParams(url.query, <<>>)
                     IN  [ k \in DOMAIN pairs |-> <<pairs[k][1], FormEncode(pairs[k][2])>> ] ]

-----------------------------------------------------------------------------
(* The client's error path and the sanitizer on their own *)

NoTraceParams ==
    [ page |-> Undefined, limit |-> Undefined, name |-> Undefined, userId |-> Undefined,
      orderBy |-> Undefined, orderDirection |-> Undefined,
      fromTimestamp |-> Undefined, toTimestamp |-> Undefined, tags |-> <<>> ]

TraceParams ==
    { NoTraceParams,
      [ NoTraceParams EXCEPT !.limit = Num(10), !.userId = Str("alice") ],
      [ NoTraceParams EXCEPT !.limit = Num(10), !.userId = Str("bob") ],
      [ NoTraceParams EXCEPT !.page = Num(2), !.orderBy = Str("totalCost"),
                             !.tags = <<"prod", "eu">> ],
      [ NoTraceParams EXCEPT !.orderBy = Str("timestamp"), !.orderDirection = Str("asc"),
                             !.name = Str("checkout") ],
      [ NoTraceParams EXCEPT !.orderBy = Str("latency"), !.limit = Num(0) ] }

ProbePairs ==
    { <<"limit", "10">>, <<"limit", "20">>, <<"sessionId", "secret123">>,
      <<"userId", "alice">>, <<"view", "a%20b">> }

ProbeUrls ==
    { [ base |-> b, path |-> <<"/api/public/traces">>, query |-> q ] :
        b \in { HttpsPrefix \o <<"e", "u">>, <<>> },
        q \in SeqsUpTo(ProbePairs, MaxParams) }
      \cup { listTracesRequest(getProjectConfig(BaseEnv).config, p).url : p \in TraceParams }

\* Order fields and directions a caller of listTraces may pass: the fields
\* the get_traces schema offers, others, and none
SortParams ==
    { [ NoTraceParams EXCEPT !.limit = Num(5), !.orderBy = f, !.orderDirection = d ] :
        f \in { Undefined, Str(""), Str("timestamp"), Str("name"), Str("totalCost"),
                Str("totalTokens"), Str("latency") },
        d \in { Undefined, Str("asc"), Str("desc"), Str("ASC") } }

\* listTraces(params) up to its fetch: the request it builds
ListTraces(params) ==
    /\ probe = NoProbe
    /\ probe' = [ fn |-> "listTraces", params |-> params,
                  request |-> listTracesRequest(config, params) ]
    /\ UNCHANGED <<env, server, config, mode, clientImpl, pc, callName, callArgs,
                   local, requests, envelope, auditLog>>

\* sanitizeUrlForLogging(url), as handleApiError calls it before logging
SanitizeUrl(url) ==
    /\ probe = NoProbe
    /\ probe' = [ fn |-> "sanitize", url |-> url, out |-> sanitizeUrlForLogging(url) ]
    /\ UNCHANGED <<env, server, config, mode, clientImpl, pc, callName, callArgs,
                   local, requests, envelope, auditLog>>

\* One operation meeting a non-2xx response in two runs that differ only in
\* the request URL and the response body: the Error each run throws
ThrowApiError(op, url1, url2, response1, response2) ==
    /\ probe = NoProbe
    /\ response1.status = response2.status
    /\ response1.statusText = response2.statusText
    /\ probe' = [ fn |-> "apiError", op |-> op,
                  url1 |-> url1, url2 |-> url2, body1 |-> response1.body,
                  body2 |-> response2.body,
                  message1 |-> ApiErrorMessage(clientImpl, op, response1, url1),
                  message2 |-> ApiErrorMessage(clientImpl, op, response2, url2) ]
    /\ UNCHANGED <<env, server, config, mode, clientImpl, pc, callName, callArgs,
                   local, requests, envelope, auditLog>>

NextProbe ==
    \/ \E url \in ProbeUrls : SanitizeUrl(url)
    \/ \E params \in SortParams : ListTraces(params)
    \/ \E op \in ClientOps, p1, p2 \in TraceParams, r1, r2 \in ErrorResponses :
         ThrowApiError(op, listTracesRequest(config, p1).url,
                       listTracesRequest(config, p2).url, r1, r2)

SpecProbe == InitCost /\ [][NextProbe]_vars

-----------------------------------------------------------------------------
(* Properties *)

\* The result a finished get_cost_analysis call returned
IsCostResult(i) ==
    /\ pc[i] = "done"
    /\ callName[i] = "get_cost_analysis"
    /\ envelope[i].content[1].kind = "result"

ResultOf(i) == envelope[i].content[1].result

RowCost(row) == row.cost

\* sum over byDay[k].cost, added in the order byDay lists the days
SumOfByDay(i) == SumOver(RowCost, ResultOf(i).breakdown.byDay.items)

HasByDay(i) == IsCostResult(i) /\ ResultOf(i).breakdown.byDay.k = "array"

\* The in-window rows reached the handler in non-decreasing date order
ArrivedInDateOrder(i) ==
    \A j, k \in DOMAIN local[i].dailyData :
        j < k => TimeOf(local[i].dailyData[j].date).n <= TimeOf(local[i].dailyData[k].date).n

C2_UserFailureIsIsolated ==
    \A i \in Calls :
        (IsCostResult(i) /\ UserErrorLog \in Range(local[i].logged)) =>
            /\ envelope[i].isError # "true"
            /\ ResultOf(i).breakdown.byUser = Arr(<<>>)
            /\ ResultOf(i).totalCost = TotalCostOf(local[i].dailyData)
            /\ ResultOf(i).breakdown.byModel
                 = ByModelOf(local[i].args, local[i].dailyData, ResultOf(i).totalCost)
            /\ ResultOf(i).breakdown.byDay = ByDayOf(local[i].args, local[i].dailyData)

\* The user call failed after a daily fetch that gave both other breakdowns rows
C2_Witness ==
    \E i \in Calls :
        /\ IsCostResult(i)
        /\ UserErrorLog \in Range(local[i].logged)
        /\ ResultOf(i).breakdown.byModel.k = "array"
        /\ Len(ResultOf(i).breakdown.byModel.items) = 2
        /\ ResultOf(i).breakdown.byDay.k = "array"
        /\ Len(ResultOf(i).breakdown.byDay.items) = 2

\* C3: a call naming a tool outside the catalog ends in an envelope with
\* isError true whose message names the tool as unknown; the handler returns
\* (it does not throw) and no HTTP request is issued.
C3_UnknownToolIsAnErrorEnvelope ==
    \A i \in Calls :
        (pc[i] \notin { "idle", "listed" } /\ callName[i] \notin KnownNames) =>
            /\ pc[i] = "done"
            /\ envelope[i].isError = "true"
            /\ envelope[i].content[1].message.template = "Unknown tool: ${name}"
            /\ envelope[i].content[1].message.name = callName[i]
            /\ requests[i] = <<>>

C3_Witness ==
    \E i \in Calls :
        /\ pc[i] = "done"
        /\ callName[i] = "delete_everything"
        /\ envelope[i].isError = "true"


\* C4 as stated: the Error a client operation throws on a non-2xx response
\* depends only on the operation and the status: two runs that differ in the
\* request URL or the response body throw the same message, and the message
\* carries neither the URL nor the body.
C4_ErrorMessageDependsOnLabelAndStatusOnly ==
    probe.fn = "apiError" =>
        /\ probe.message1 = probe.message2
        /\ probe.message1.url = NoUrl
        /\ probe.message1.body = ""

\* The output shows name=[REDACTED]
IsRedacted(out, name) == \E j \in DOMAIN out.query : out.query[j] = <<name, RedactionMarker>>

\* C5 as stated: for every URL that parses, the sanitized form has the same
\* path, shows name=value for every parameter on the allow-list, shows
\* name=[REDACTED] for every other parameter, and shows no value of a
\* parameter that is not on the allow-list.
C5_SanitizedUrlKeepsAllowedRedactsOthers ==
    (probe.fn = "sanitize" /\ probe.out # InvalidUrlPlaceholder) =>
        /\ probe.out.pathname = probe.url.path
        /\ \A k \in DOMAIN probe.url.query :
              LET name == probe.url.query[k][1]
                  value == probe.url.query[k][2]
              IN  IF name \in AllowedParams
                  THEN \E j \in DOMAIN probe.out.query :
                          /\ probe.out.query[j][1] = name
                          /\ FormDecode(probe.out.query[j][2]) = FormDecode(value)
                  ELSE /\ IsRedacted(probe.out, name)
                       /\ \A j \in DOMAIN probe.out.query : probe.out.query[j][2] # value

IsHttps(url) ==
    /\ Len(url) >= 8
    /\ SubSeq(url, 1, 8) = <<"h", "t", "t", "p", "s", ":", "/", "/">>

KeysPresent(e) == e.publicKey # <<>> /\ e.secretKey # <<>>

\* C6: construction fails whenever the configured base URL does not start
\* with https://, and succeeds whenever it does (or none is configured, which
\* selects the https default) and both keys are present; so the client's base
\* URL, and the URL of every request that carries credentials, is https.
C6_ClientOnlyOverHttps ==
    /\ server = "failed" =>
          (~KeysPresent(env) \/ (env.baseUrl # <<>> /\ ~IsHttps(env.baseUrl)))
    /\ server = "running" =>
          /\ KeysPresent(env)
          /\ (env.baseUrl = <<>> \/ IsHttps(env.baseUrl))
          /\ IsHttps(config.baseUrl)
    /\ \A i \in Calls : \A k \in DOMAIN requests[i] :
          /\ server = "running"
          /\ IsHttps(requests[i][k].url.base)
          /\ requests[i][k].url.base = config.baseUrl

\* A client built for a configured https URL has sent a request with credentials
C6_Witness ==
    /\ server = "running"
    /\ env.baseUrl = <<"h", "t", "t", "p", "s", ":", "/", "/", "e", "u">>
    /\ \E i \in Calls : \E k \in DOMAIN requests[i] : requests[i][k].auth # NoAuth


\* The call on slot i is a tools/call that has started
IsToolCall(i) == pc[i] \notin { "idle", "listed" }

MessageOf(i) == envelope[i].content[1].message

Listed(i) == { envelope[i].tools[k] : k \in DOMAIN envelope[i].tools }

Unconfirmed(i) ==
    IsToolCall(i) /\ IsDestructive(callName[i]) /\ ~HasConfirmation(callArgs[i])

RecordsOf(i) == { k \in DOMAIN auditLog : auditLog[k].call = i }

Returned(i) == IsToolCall(i) /\ pc[i] = "done"

\* { content: [{ type: 'text', ... }, ...], isError }: at least one block,
\* every block of type text, no other key
IsEnvelopeShape(e) ==
    /\ DOMAIN e = { "content", "isError" }
    /\ Len(e.content) >= 1
    /\ \A k \in DOMAIN e.content : e.content[k].type = "text"

\* The block carries an error message (not the JSON of a payload)
IsErrorExit(i) == envelope[i].content[1].kind = "message"

\* The arguments of the call fail the schema of the tool it names
FailsValidation(i) ==
    \/ callName[i] = "get_cost_analysis" /\ ~ZodParse(getCostAnalysisSchema, callArgs[i]).ok
    \/ callName[i] \in DOMAIN ThinTools /\ ~ThinParse(callName[i], callArgs[i]).ok

MissingRequired(i) ==
    LET raw == callArgs[i]
    IN  CASE callName[i] = "get_cost_analysis" ->
               raw.k # "object" \/ raw.f.from = Undefined \/ raw.f.to = Undefined
          [] callName[i] = "get_model_detail" ->
               raw.k # "object" \/ raw.f.modelId = Undefined
          [] callName[i] = "get_prompt_detail" ->
               raw.k # "object" \/ raw.f.promptName = Undefined
          [] OTHER -> raw.k # "object"

\* A field the schema types as a number holds a value of another type
TypeMismatch(i) ==
    /\ callArgs[i].k = "object"
    /\ callName[i] \in { "get_cost_analysis", "list_prompts", "list_models" }
    /\ callArgs[i].f.limit.k \notin { "undefined", "num" }

\* get_cost_analysis with a numeric limit outside 5..100
OutOfRange(i) ==
    /\ callArgs[i].k = "object"
    /\ callName[i] = "get_cost_analysis"
    /\ callArgs[i].f.limit.k = "num"
    /\ (callArgs[i].f.limit.n < LimitMin \/ callArgs[i].f.limit.n > LimitMax)

HasSchema(i) == callName[i] \in DOMAIN ThinTools \cup { "get_cost_analysis" }

\* The raw arguments of call i hold the unknown key and are valid without it
ValidButForExtra(i) ==
    /\ callArgs[i].k = "object"
    /\ callArgs[i].f.extra # Undefined
    /\ ~MissingRequired(i) /\ ~TypeMismatch(i) /\ ~OutOfRange(i)
    /\ callName[i] = "get_cost_analysis" =>
          IsDatetime(callArgs[i].f.from.s) /\ IsDatetime(callArgs[i].f.to.s)

\* C12: a call whose arguments lack a required field, hold a value of the
\* wrong type or a limit outside its bounds returns the dispatcher's error
\* envelope with the validation issues, issues no request, and leaves the
\* server running with the next slot open to a call; a call valid but for an
\* unknown key is not refused: its request goes out and the handler never
\* sees the key.
C12_InvalidArgumentsAreRefusedExtrasIgnored ==
    \A i \in Calls :
        (IsToolCall(i) /\ HasSchema(i)) =>
            /\ (MissingRequired(i) \/ TypeMismatch(i) \/ OutOfRange(i)) =>
                  /\ pc[i] = "done"
                  /\ envelope[i].isError = "true"
                  /\ MessageOf(i).prefix = <<"Error: ">>
                  /\ MessageOf(i).template = "${issues}"
                  /\ MessageOf(i).issues # {}
                  /\ MissingRequired(i) =>
                        \E x \in MessageOf(i).issues : x[2] = "Required"
                  /\ TypeMismatch(i) => <<"limit", "invalid_type">> \in MessageOf(i).issues
                  /\ OutOfRange(i) =>
                        \E x \in MessageOf(i).issues :
                            x[1] = "limit" /\ x[2] \in { "too_small", "too_big" }
                  /\ requests[i] = <<>>
                  /\ server = "running"
                  /\ (i < MaxCalls /\ pc[i + 1] = "idle") =>
                        ENABLED InvokeThin(i + 1, "list_prompts", EmptyObject)
            /\ ValidButForExtra(i) =>
                  /\ requests[i] # <<>>
                  /\ local[i].args.extra = Undefined

\* A call with a limit above the maximum was refused and the next call, valid
\* but for an unknown key, returned its result
C12_Witness ==
    /\ callName[1] = "get_cost_analysis" /\ OutOfRange(1) /\ Returned(1)
    /\ callName[2] = "get_cost_analysis" /\ ValidButForExtra(2) /\ Returned(2)
    /\ envelope[2].isError = "absent"

\* Both bounds are instants and from is later than to
ReversedWindow(raw) ==
    /\ raw.k = "object"
    /\ raw.f.from.k = "str" /\ IsDatetime(raw.f.from.s)
    /\ raw.f.to.k = "str" /\ IsDatetime(raw.f.to.s)
    /\ TimeOf(raw.f.from).n > TimeOf(raw.f.to).n

\* C13 as stated: a get_cost_analysis call whose from is later than its to is
\* rejected: it returns an error envelope and no request reaches the backend.
C13_ReversedWindowIsRejected ==
    \A i \in Calls :
        (IsToolCall(i) /\ callName[i] = "get_cost_analysis" /\ ReversedWindow(callArgs[i])) =>
            /\ requests[i] = <<>>
            /\ pc[i] = "done"
            /\ envelope[i].isError = "true"

\* The handler of call i is suspended on the fetch of its last request
AwaitsResponse(i) == pc[i] \in { "awaitHttp", "awaitWrite", "awaitDaily", "awaitUser" }

LastRequest(i) == requests[i][Len(requests[i])]

\* C14 as stated, in its finite form: whenever a call waits for the backend,
\* the fetch it waits on is bounded by a timeout (an abort signal armed with a
\* timer), so that a backend that never responds cannot keep it pending.
C14_EveryPendingFetchHasATimeout ==
    \A i \in Calls : AwaitsResponse(i) => LastRequest(i).signal # NoSignal

OpsOf(reqs) == { reqs[k].op : k \in DOMAIN reqs }

\* What one step may do to the requests of call i: add one request of a
\* client operation the call has not invoked before, or nothing
IssuesAtMostOneNewOperation(i) ==
    \/ requests'[i] = requests[i]
    \/ /\ Len(requests'[i]) = Len(requests[i]) + 1
       /\ SubSeq(requests'[i], 1, Len(requests[i])) = requests[i]
       /\ requests'[i][Len(requests'[i])].op \notin OpsOf(requests[i])

\* A step that ends a wait for the backend returns the call, or (in the cost
\* analysis, whose catch swallows the daily failure) moves on to the next
\* client operation; no step resumes the wait for the same operation
EndsTheWait(i) ==
    (AwaitsResponse(i) /\ <<pc'[i], requests'[i]>> # <<pc[i], requests[i]>>) =>
        \/ pc'[i] = "done" /\ requests'[i] = requests[i]
        \/ /\ pc[i] = "awaitDaily" /\ pc'[i] = "awaitUser"
           /\ requests'[i][Len(requests'[i])].op = "getMetrics"

\* C15: every invocation of a client operation issues exactly one HTTP
\* request; whatever the response (2xx, non-2xx, network error), the request
\* is not issued again: the operation's outcome goes to its caller in the
\* same step.
C15_NoRetries ==
    [][\A i \in Calls : IssuesAtMostOneNewOperation(i) /\ EndsTheWait(i)]_vars

\* A one-call tool returned its client's error after exactly one request, and
\* a cost analysis whose two source calls both failed issued exactly two
C15_Witness ==
    /\ Returned(1) /\ callName[1] \in DOMAIN ThinTools
    /\ IsErrorExit(1) /\ Len(requests[1]) = 1
    /\ MessageOf(1).status = 500
    /\ Returned(2) /\ callName[2] = "get_cost_analysis"
    /\ local[2].logged = <<DailyErrorLog, UserErrorLog>>
    /\ Len(requests[2]) = 2

\* Authorization: Basic base64(publicKey:secretKey) for the keys the process
\* was configured with
ConfiguredAuth ==
    [ scheme |-> "Basic", publicKey |-> env.publicKey, secretKey |-> env.secretKey ]

\* C16: every request a call has issued carries the Basic header built from
\* the configured key pair, except the request of the health check, which
\* carries no Authorization header and is the only one without it.
C16_EveryRequestButHealthIsAuthenticated ==
    \A i \in Calls : \A k \in DOMAIN requests[i] :
        IF requests[i][k].op = "getHealthStatus"
        THEN requests[i][k].auth = NoAuth
        ELSE /\ requests[i][k].auth = ConfiguredAuth
             /\ requests[i][k].auth.publicKey # <<>>
             /\ requests[i][k].auth.secretKey # <<>>

\* A health check went out without the header and an item deletion with it
C16_Witness ==
    /\ callName[1] = "get_health_status"
    /\ Len(requests[1]) = 1 /\ requests[1][1].auth = NoAuth
    /\ callName[2] = "write_delete_dataset_item"
    /\ Len(requests[2]) = 1 /\ requests[2][1].method = "DELETE"
    /\ requests[2][1].auth = ConfiguredAuth

ItemsOf(v) == IF v.k = "array" THEN { v.items[k] : k \in DOMAIN v.items } ELSE {}

\* The rows of the model and of the user breakdown of a returned analysis
BreakdownRows(i) ==
    ItemsOf(ResultOf(i).breakdown.byModel) \cup ItemsOf(ResultOf(i).breakdown.byUser)

\* round(10000 * cost / totalCost) over the rationals, halves rounded up, in
\* hundredths of a percent
ExactPercentage(cost, totalCost) ==
    LET a == 10000 * cost
    IN  a \div totalCost + (IF 2 * (a % totalCost) >= totalCost THEN 1 ELSE 0)

\* C17 as stated: every row's percentage is round((cost / totalCost) * 10000)
\* / 100 when totalCost > 0 and 0 otherwise.
C17_PercentageIsTheRoundedRatio ==
    \A i \in Calls :
        IsCostResult(i) =>
            \A row \in BreakdownRows(i) :
                row.percentage =
                    IF ResultOf(i).totalCost > 0
                    THEN ExactPercentage(row.cost, ResultOf(i).totalCost)
                    ELSE 0

\* C17 amended: every row's percentage is Math.round(((cost / totalCost) *
\* 100) * 100) / 100 with the quotient and each product rounded as a JS
\* number when totalCost > 0, and 0 otherwise; it is 0 for a row of cost 0,
\* and it lies within one hundredth of the exactly rounded ratio.
C17_PercentageIsTheRoundedProduct ==
    \A i \in Calls :
        IsCostResult(i) =>
            \A row \in BreakdownRows(i) :
                LET total == ResultOf(i).totalCost
                    p == row.percentage
                IN  /\ total <= 0 => p = 0
                    /\ row.cost = 0 => p = 0
                    /\ total > 0 =>
                          /\ p = MathRound(FloatTimes100(FloatTimes100(
                                     FloatDiv(row.cost, total))))
                          /\ p - ExactPercentage(row.cost, total) \in { -1, 0, 1 }

\* A model row of cost 33333 against a total of 100000 shows 33.33 percent
C17_Witness ==
    \E i \in Calls :
        /\ IsCostResult(i)
        /\ ResultOf(i).totalCost = 100000
        /\ \E row \in BreakdownRows(i) : row.cost = 33333 /\ row.percentage = 3333

HasByModel(i) == IsCostResult(i) /\ ResultOf(i).breakdown.byModel.k = "array"

\* The nested usage rows of the in-window days, and the names they carry
UsageOf(i) == AllUsage(local[i].dailyData)

ModelNamesOf(i) == { ModelNameOf(UsageOf(i)[k]) : k \in DOMAIN UsageOf(i) }

\* The usage rows of one model name, in the order they arrived
UsageOfModel(i, model) ==
    LET Mine(u) == ModelNameOf(u) = model IN FilterSeq(Mine, UsageOf(i))

ByModelRows(i) == ResultOf(i).breakdown.byModel.items

\* The row of byModel carries the sums over the usage rows of its model
IsSumOfItsUsage(i, row) ==
    /\ row.model \in ModelNamesOf(i)
    /\ row.cost = SumOver(UsageCost, UsageOfModel(i, row.model))
    /\ row.tokens = SumOver(UsageTokens, UsageOfModel(i, row.model))
    /\ row.observations = SumOver(UsageObservations, UsageOfModel(i, row.model))

\* C18 as stated: byModel has exactly one row for every model name among the
\* usage rows of the in-window days ("unknown" for rows without a name), and
\* each row carries the sums of cost, tokens and observations of its model.
C18_OneRowPerModelName ==
    \A i \in Calls :
        HasByModel(i) =>
            /\ \A name \in ModelNamesOf(i) :
                  Cardinality({ k \in DOMAIN ByModelRows(i) : ByModelRows(i)[k].model = name }) = 1
            /\ \A k \in DOMAIN ByModelRows(i) : IsSumOfItsUsage(i, ByModelRows(i)[k])

\* C18 amended: byModel has at most one row per model name and every row
\* carries the sums of its model; the rows are those of all names when there
\* are at most `limit` names, and otherwise `limit` rows such that no omitted
\* name has a higher cost than a listed one.
C18_OneRowPerModelNameUpToLimit ==
    \A i \in Calls :
        HasByModel(i) =>
            LET rows == ByModelRows(i)
                listed == { rows[k].model : k \in DOMAIN rows }
                limit == local[i].args.limit.n
            IN  /\ \A j, k \in DOMAIN rows : rows[j].model = rows[k].model => j = k
                /\ \A k \in DOMAIN rows : IsSumOfItsUsage(i, rows[k])
                /\ Len(rows) = IF Cardinality(ModelNamesOf(i)) <= limit
                               THEN Cardinality(ModelNamesOf(i)) ELSE limit
                /\ \A name \in ModelNamesOf(i) \ listed : \A k \in DOMAIN rows :
                      SumOver(UsageCost, UsageOfModel(i, name)) <= rows[k].cost

\* Two days of gpt-4, 100 and 250 in cost and in usage, gave the one row
\* gpt-4 with cost 350, tokens 350 and 100 percent
C18_Witness ==
    \E i \in Calls :
        /\ HasByModel(i)
        /\ Len(local[i].dailyData) = 2
        /\ ResultOf(i).totalCost = 350
        /\ ByModelRows(i) = << [ model |-> "gpt-4", cost |-> 350, tokens |-> 350,
                                 observations |-> 3, percentage |-> 10000 ] >>

\* C19 as stated: every row of byModel and byUser has a percentage between 0
\* and 100 (kept in hundredths) and a cost that is not negative, whatever the
\* daily source and the metrics source answered.
C19_PercentageWithinZeroAndHundred ==
    \A i \in Calls :
        IsCostResult(i) =>
            \A row \in BreakdownRows(i) :
                /\ row.percentage >= 0
                /\ row.percentage <= 10000
                /\ row.cost >= 0

\* The daily fetch of call i threw (non-2xx or network error)
DailyFetchFailed(i) == DailyErrorLog \in Range(local[i].logged)

\* C20 as stated: a get_cost_analysis call whose daily-source call failed
\* returns an error envelope carrying the transport failure, not the
\* successful zero-cost result a daily source with zero rows gives.
C20_DailyFailureIsAnErrorEnvelope ==
    \A i \in Calls :
        (Returned(i) /\ callName[i] = "get_cost_analysis" /\ DailyFetchFailed(i)) =>
            /\ envelope[i].isError = "true"
            /\ IsErrorExit(i)

\* The rows are in non-increasing order of cost
CostNonIncreasing(rows) ==
    \A k \in 1..(Len(rows) - 1) : rows[k].cost >= rows[k + 1].cost

LimitOf(i) == local[i].args.limit.n

\* rows are the highest-cost rows of the full breakdown: each row once, as
\* many as the limit admits, and no row left out costs more than a listed one
IsTopByCost(rows, full, limit) ==
    /\ Len(rows) = IF Cardinality(full) <= limit THEN Cardinality(full) ELSE limit
    /\ Range(rows) \subseteq full
    /\ Cardinality(Range(rows)) = Len(rows)
    /\ \A x \in full \ Range(rows) : \A k \in DOMAIN rows : x.cost <= rows[k].cost

\* One row per model name of the in-window usage rows, before sort and cut
FullModelRows(i) ==
    { ModelRow(name, UsageOf(i), ResultOf(i).totalCost) : name \in ModelNamesOf(i) }

\* One row per metrics row that carries a userId, before sort and cut
FullUserRows(response, totalCost) ==
    IF response.kind = "ok" /\ response.json.data.k = "array"
    THEN { UserRow(response.json.data.items[k], totalCost) :
             k \in { j \in DOMAIN response.json.data.items :
                       HasUserId(response.json.data.items[j]) } }
    ELSE {}

\* byModel of a returned analysis is sorted and holds the top rows
ByModelIsSortedTop(i) ==
    HasByModel(i) =>
        /\ CostNonIncreasing(ByModelRows(i))
        /\ Len(ByModelRows(i)) <= LimitOf(i)
        /\ IsTopByCost(ByModelRows(i), FullModelRows(i), LimitOf(i))

\* The step in which the metrics call settles with `response` leaves byUser
\* sorted and holding the top rows of what the response carried
ByUserIsSortedTop(i, response) ==
    UserResponds(i, response) =>
        LET rows == envelope'[i].content[1].result.breakdown.byUser.items
        IN  /\ CostNonIncreasing(rows)
            /\ Len(rows) <= LimitOf(i)
            /\ IsTopByCost(rows, FullUserRows(response, local[i].totalCost), LimitOf(i))

\* C21: byModel and byUser of get_cost_analysis are in non-increasing order
\* of cost, hold at most `limit` rows, and the rows are the highest-cost rows
\* of the full breakdown: the sort comes before the cut.
C21_SortedByCostThenCutToLimit ==
    /\ [](\A i \in Calls : ByModelIsSortedTop(i))
    /\ [][\A i \in Calls : \A response \in BreakdownUserResponses :
             ByUserIsSortedTop(i, response)]_vars

\* With limit 5, six model names gave five model rows and six users gave
\* five user rows, the two users of equal cost first
C21_Witness ==
    \E i \in Calls :
        /\ HasByModel(i)
        /\ LimitOf(i) = 5
        /\ Cardinality(ModelNamesOf(i)) = 6
        /\ Len(ByModelRows(i)) = 5
        /\ ResultOf(i).breakdown.byUser.k = "array"
        /\ Len(ResultOf(i).breakdown.byUser.items) = 5
        /\ ResultOf(i).breakdown.byUser.items[1].userId = "bob"
        /\ ResultOf(i).breakdown.byUser.items[2].userId = "dave"

\* The day's date is an instant within from <= date <= to
LiesInWindow(day, args) ==
    /\ TimeOf(day.date).k = "num"
    /\ TimeOf(args.from).n <= TimeOf(day.date).n
    /\ TimeOf(day.date).n <= TimeOf(args.to).n

\* The rows a daily response carries (none unless it is a 2xx with an array)
RowsOfResponse(response) ==
    IF response.kind = "ok" /\ response.json.data.k = "array"
    THEN response.json.data.items
    ELSE <<>>

\* The step in which the daily fetch settles with `response` keeps exactly
\* the rows of the response whose date lies in the window, each once
KeepsTheWindow(i, response) ==
    DailyResponds(i, response) =>
        LET In(day) == LiesInWindow(day, local[i].args)
        IN  local'[i].dailyData = FilterSeq(In, RowsOfResponse(response))

Orderings(n) ==
    { p \in [ 1..n -> 1..n ] : \A j, k \in 1..n : p[j] = p[k] => j = k }

\* byDay lists the kept days one to one, by ascending date, each with the
\* tokens summed over its own usage rows
ByDayMirrorsTheKeptDays(i) ==
    HasByDay(i) =>
        LET rows == ResultOf(i).breakdown.byDay.items
            days == local[i].dailyData
        IN  /\ Len(rows) = Len(days)
            /\ \E p \in Orderings(Len(days)) :
                  \A k \in DOMAIN rows :
                      /\ rows[k].date = days[p[k]].date
                      /\ rows[k].tokens = SumOver(UsageTokens, UsageRows(days[p[k]]))
            /\ \A k \in 1..(Len(rows) - 1) :
                  TimeOf(rows[k].date).n <= TimeOf(rows[k + 1].date).n

\* C22: byDay has exactly one row per row of the daily response whose date
\* lies in from <= date <= to and no other row, in ascending order of date,
\* and each row's tokens are the sum over the nested usage rows of its day.
C22_ByDayIsTheWindowInDateOrder ==
    /\ [](\A i \in Calls : ByDayMirrorsTheKeptDays(i))
    /\ [][\A i \in Calls : \A response \in BreakdownDailyResponses :
             KeepsTheWindow(i, response)]_vars

\* Two days arrived newest first; byDay lists the older one first, with 150
\* tokens from its three usage rows, then the newer one with 23 + 0
C22_Witness ==
    \E i \in Calls :
        /\ HasByDay(i)
        /\ Len(local[i].dailyData) = 2
        /\ local[i].dailyData[1].date = Str("2024-01-02")
        /\ ResultOf(i).breakdown.byDay.items[1].date = Str("2024-01-01")
        /\ ResultOf(i).breakdown.byDay.items[1].tokens = 150
        /\ ResultOf(i).breakdown.byDay.items[2].tokens = 40

\* The step changes something that belongs to call i
SlotChanged(i) ==
    <<pc'[i], callName'[i], callArgs'[i], local'[i], requests'[i], envelope'[i]>>
        # <<pc[i], callName[i], callArgs[i], local[i], requests[i], envelope[i]>>

\* What a one-call tool returns for its arguments and the backend's response
\* when no other call exists
AloneThinEnvelope(name, raw, response) ==
    LET out == ClientOutcome(clientImpl,
                             ThinRequest(config, name, ThinParse(name, raw).args),
                             response)
    IN  IF out.threw
        THEN ErrorEnvelope(Prefixed(ThinTools[name].prefix, out.message))
        ELSE JsonEnvelope(out.json)

AloneWriteEnvelope(name, raw, response) ==
    LET out == ClientOutcome(clientImpl, WriteRequest(config, name, raw.f), response)
    IN  IF out.threw THEN DispatcherError(out.message) ELSE JsonEnvelope(out.json)

\* The handler's locals of get_cost_analysis once its daily fetch has settled
AloneAfterDaily(raw, response) ==
    LET args == ZodParse(getCostAnalysisSchema, raw).args
        out == ClientOutcome(clientImpl, getDailyMetricsRequest(config, args), response)
        dailyData == IF out.threw THEN <<>> ELSE DailyDataOf(out.json, args.from, args.to)
    IN  [ args |-> args, dailyData |-> dailyData, totalCost |-> TotalCostOf(dailyData),
          byModel |-> ByModelOf(args, dailyData, TotalCostOf(dailyData)),
          logged |-> IF out.threw THEN <<DailyErrorLog>> ELSE <<>> ]

AloneCostEnvelope(l, response) ==
    LET out == ClientOutcome(clientImpl, getMetricsRequest(config, l.args), response)
    IN  ResultEnvelope(CostResult(config, l, ByUserOf(l.args, out, l.totalCost)))

\* Whatever the other calls are doing, the step that hands call i a response
\* leaves it what the same response gives a call that runs alone
RunsAsAlone(i) ==
    /\ \A response \in FewThinResponses :
          ThinResponds(i, response) =>
              envelope'[i] = AloneThinEnvelope(callName[i], callArgs[i], response)
    /\ \A response \in FewWriteResponses, sinkOk \in BOOLEAN :
          WriteResponds(i, response, sinkOk) =>
              envelope'[i] = AloneWriteEnvelope(callName[i], callArgs[i], response)
    /\ \A response \in FewDailyResponses :
          DailyResponds(i, response) =>
              /\ local'[i] = AloneAfterDaily(callArgs[i], response)
              /\ pc'[i] = "done" =>
                    envelope'[i] = ResultEnvelope(CostResult(config, local'[i], Undefined))
    /\ \A response \in FewUserResponses :
          UserResponds(i, response) =>
              envelope'[i] = AloneCostEnvelope(local[i], response)

\* C23: with several calls in flight and their backend calls interleaved in
\* any order, a step touches the state of one call only (a failing call
\* neither ends nor alters another), and each call's result is the one the
\* same arguments and responses give a call that runs alone.
C23_ConcurrentCallsAreIsolated ==
    [][/\ \A i, j \in Calls : (i # j /\ SlotChanged(i)) => ~SlotChanged(j)
       /\ \A i \in Calls : SlotChanged(i) => RunsAsAlone(i)]_vars

\* The second call failed and returned while the first, which arrived before
\* it, is still waiting for its second backend call with its locals intact
C23_Witness ==
    /\ pc[1] = "awaitUser"
    /\ local[1].totalCost = 350
    /\ envelope[1] = Pending
    /\ Returned(2)
    /\ requests[2] # <<>>
    /\ envelope[2].isError = "true"

\* The configuration the constructor built from the environment
StartupConfig == getProjectConfig(env).config

\* The step in which call i arrives does what the same name and arguments
\* make the first call of the process do: the same verdict of the gates and
\* of the schema, the same first request to the backend
InvokesAsFirst(i) ==
    /\ \A name \in UnknownNames :
          InvokeUnknown(i, name, EmptyObject) =>
              envelope'[i] = DispatcherError(UnknownToolMessage(name))
    /\ \A name \in FewThinTools, raw \in FewThinArgs :
          InvokeThin(i, name, raw) =>
              IF ThinParse(name, raw).ok
              THEN /\ requests'[i] = <<ThinRequest(StartupConfig, name, ThinParse(name, raw).args)>>
                   /\ envelope'[i] = Pending
              ELSE /\ requests'[i] = <<>>
                   /\ envelope'[i] = DispatcherError(ZodErrorMessage(ThinParse(name, raw).issues))
    /\ \A name \in FewWriteTools, raw \in FewWriteArgs, sinkOk \in BOOLEAN :
          InvokeWrite(i, name, raw, sinkOk) =>
              IF WriteDecision(name, raw, getServerMode(env)) = "call"
              THEN /\ requests'[i] = <<WriteRequest(StartupConfig, name, raw.f)>>
                   /\ envelope'[i] = Pending
              ELSE /\ requests'[i] = <<>>
                   /\ envelope'[i] = WriteRefusal(name, raw,
                                                  WriteDecision(name, raw, getServerMode(env)))
    /\ \A raw \in FewCostArgs :
          InvokeCostAnalysis(i, raw) =>
              IF ZodParse(getCostAnalysisSchema, raw).ok
              THEN /\ requests'[i] = <<getDailyMetricsRequest(
                                         StartupConfig,
                                         ZodParse(getCostAnalysisSchema, raw).args)>>
                   /\ local'[i] = [ NoLocal EXCEPT
                                      !.args = ZodParse(getCostAnalysisSchema, raw).args ]
              ELSE /\ requests'[i] = <<>>
                   /\ envelope'[i] = DispatcherError(ZodErrorMessage(
                                         ZodParse(getCostAnalysisSchema, raw).issues))

\* C24: nothing persists between requests. While the server runs, the
\* client's configuration and the mode are the ones built at startup,
\* whatever calls were made and whoever wrote to an object getConfig() handed
\* out; and every step of a call that follows earlier calls, failed or not,
\* does what the same arguments and the same response give the first call.
C24_NothingPersistsBetweenRequests ==
    /\ [](server = "running" =>
            /\ config = StartupConfig
            /\ mode = getServerMode(env))
    /\ [][\A i \in Calls :
             (i > 1 /\ SlotChanged(i)) => (InvokesAsFirst(i) /\ RunsAsAlone(i))]_vars

\* The first call failed at the backend; the second, with the same tool and
\* arguments, sent the same request again and returned the backend's data
C24_Witness ==
    /\ Returned(1) /\ Returned(2)
    /\ callName[1] = callName[2]
    /\ callArgs[1] = callArgs[2]
    /\ requests[1] # <<>>
    /\ requests[2] = requests[1]
    /\ envelope[1].isError = "true"
    /\ envelope[2].isError = "absent"
    /\ config = StartupConfig

\* What a query of the mode answers once the server runs
ModeQuery == getCurrentServerMode(env)

SortAllowList == { "timestamp", "name", "totalCost" }

\* The values of the sort directives in the query of a request
SortDirectives(request) ==
    [ k \in { j \in DOMAIN request.url.query : request.url.query[j][1] = "order_by" }
        |-> request.url.query[k][2] ]

\* The query names the key under no spelling
HasNoKey(request, keys) ==
    \A j \in DOMAIN request.url.query : request.url.query[j][1] \notin keys

\* C26: listTraces sends a sort directive only when the requested order field
\* is timestamp, name or totalCost: then exactly one, the field followed by
\* ASC when the direction asked is 'asc' and by DESC for every other direction
\* or none; for any other field (totalTokens included) and for no field the
\* query carries no sort directive at all.
C26_SortDirectiveOnlyForAllowedFields ==
    probe.fn = "listTraces" =>
        LET sorts == SortDirectives(probe.request)
            field == probe.params.orderBy
            allowed == field.k = "str" /\ field.s \in SortAllowList
        IN  /\ HasNoKey(probe.request, { "orderBy", "orderDirection", "order" })
            /\ allowed =>
                  /\ Cardinality(DOMAIN sorts) = 1
                  /\ \A k \in DOMAIN sorts :
                        sorts[k] = IF probe.params.orderDirection = Str("asc")
                                   THEN field.s \o " ASC"
                                   ELSE field.s \o " DESC"
            /\ ~allowed => DOMAIN sorts = {}

\* totalCost with no direction went out as "totalCost DESC"
C26_Witness ==
    /\ probe.fn = "listTraces"
    /\ probe.params.orderBy = Str("totalCost")
    /\ probe.params.orderDirection = Undefined
    /\ probe.request.url.query = << <<"limit", "5">>, <<"order_by", "totalCost DESC">> >>

\* A cost analysis has returned its result, however it was called
HasReturnedAnalysis(i) == pc[i] = "done" /\ envelope[i].content[1].kind = "result"

\* The handler was called as a function: no tool request carried the call
CalledDirectly(i) == pc[i] # "idle" /\ callName[i] = ""

\* The result holds all three breakdowns, byModel and byUser of at most
\* LimitDefault rows each
HasAllBreakdownsWithinDefaultLimit(result) ==
    /\ result.breakdown.byModel.k = "array"
    /\ result.breakdown.byUser.k = "array"
    /\ result.breakdown.byDay.k = "array"
    /\ Len(result.breakdown.byModel.items) <= LimitDefault
    /\ Len(result.breakdown.byUser.items) <= LimitDefault

\* C27: a cost analysis asked with only from and to returns all three
\* breakdowns, byModel and byUser of at most 20 rows each, whether the call
\* came through the dispatcher or the handler was called directly with
\* { from, to }.
C27_WindowOnlyCallReturnsAllBreakdowns ==
    \A i \in Calls :
        HasReturnedAnalysis(i) => HasAllBreakdownsWithinDefaultLimit(ResultOf(i))

\* The dispatcher's half of C27 alone
C27_ThroughTheDispatcher ==
    \A i \in Calls :
        (HasReturnedAnalysis(i) /\ ~CalledDirectly(i)) =>
            /\ local[i].args.limit = Num(LimitDefault)
            /\ HasAllBreakdownsWithinDefaultLimit(ResultOf(i))

\* schema.parse of the arguments call i arrived with, by the tool it names
ParseOf(i) ==
    IF callName[i] = "get_cost_analysis"
    THEN ZodParse(getCostAnalysisSchema, callArgs[i])
    ELSE ThinParse(callName[i], callArgs[i])

\* The first request a handler makes from validated arguments
FirstRequestOf(i, args) ==
    IF callName[i] = "get_cost_analysis"
    THEN getDailyMetricsRequest(config, args)
    ELSE ThinRequest(config, callName[i], args)

\* C28: validation precedes every backend call.  A call of a tool with a
\* schema whose arguments fail validation has issued no request, at any time,
\* and has returned; a call that has issued a request passed validation, and
\* its first request is the one its handler builds from the validated
\* arguments.  No step both refuses a call's arguments and sends a request.
C28_ValidationPrecedesEveryBackendCall ==
    /\ [](\A i \in Calls :
            (IsToolCall(i) /\ HasSchema(i)) =>
                /\ ~ParseOf(i).ok => (requests[i] = <<>> /\ pc[i] = "done")
                /\ requests[i] # <<>> =>
                      /\ ParseOf(i).ok
                      /\ requests[i][1] = FirstRequestOf(i, ParseOf(i).args))
    /\ [][\A i \in Calls :
            (HasSchema(i)' /\ requests[i]' # requests[i]) =>
                /\ ParseOf(i)'.ok
                /\ envelope[i]' = Pending]_vars

\* One call was refused for a limit above the maximum and sent nothing while
\* the other, valid, has its request out
C28_Witness ==
    /\ callName[1] = "get_cost_analysis"
    /\ callArgs[1].f.limit = Num(101)
    /\ pc[1] = "done"
    /\ envelope[1].isError = "true"
    /\ requests[1] = <<>>
    /\ callName[2] = "get_model_detail"
    /\ pc[2] = "awaitHttp"
    /\ Len(requests[2]) = 1

\* The number of requests of call i that went out for the operation
CountOf(i, op) == Cardinality({ k \in DOMAIN requests[i] : requests[i][k].op = op })

\* A cost analysis whose arguments passed the schema
IsCostCall(i) ==
    /\ callName[i] = "get_cost_analysis"
    /\ pc[i] # "idle"
    /\ ZodParse(getCostAnalysisSchema, callArgs[i]).ok

\* C29: one get_cost_analysis call issues exactly one daily-source request,
\* whatever its include flags; it issues exactly one metrics request when
\* includeUserBreakdown is true and none otherwise; and the metrics request
\* goes out only in the step in which the daily fetch settles (with a response
\* or with a failure), so the two are never awaited together: while the daily
\* fetch is awaited there is no metrics request, and the daily request is the
\* first and the metrics request the second and last.
C29_OneDailyFetchThenAtMostOneMetricsFetch ==
    /\ [](\A i \in Calls :
            IsCostCall(i) =>
                LET wantsUsers == local[i].args.includeUserBreakdown = Bool(TRUE)
                IN  /\ CountOf(i, "getDailyMetrics") = 1
                    /\ requests[i][1].op = "getDailyMetrics"
                    /\ pc[i] \in { "awaitDaily", "awaitUser", "done" }
                    /\ pc[i] = "awaitDaily" => Len(requests[i]) = 1
                    /\ pc[i] = "awaitUser" => wantsUsers
                    /\ pc[i] \in { "awaitUser", "done" } =>
                          /\ CountOf(i, "getMetrics") = IF wantsUsers THEN 1 ELSE 0
                          /\ Len(requests[i]) = IF wantsUsers THEN 2 ELSE 1)
    /\ [][\A i \in Calls :
            (IsCostCall(i) /\ CountOf(i, "getMetrics")' > CountOf(i, "getMetrics")) =>
                /\ pc[i] = "awaitDaily"
                /\ pc[i]' = "awaitUser"
                /\ requests[i]' = Append(requests[i], getMetricsRequest(config, local[i].args))]_vars

\* A call that asked for the user breakdown alone has its metrics request out
\* as its second, after its daily fetch failed
C29_Witness ==
    /\ IsCostCall(1)
    /\ local[1].args.includeModelBreakdown = Bool(FALSE)
    /\ pc[1] = "awaitUser"
    /\ DailyErrorLog \in Range(local[1].logged)
    /\ Len(requests[1]) = 2
    /\ requests[1][2].op = "getMetrics"

RowTokens(row) == row.tokens

\* Both breakdowns are in the result and no model row fell to the limit
HasBothWithinLimit(i) ==
    /\ HasByModel(i) /\ HasByDay(i)
    /\ Cardinality(ModelNamesOf(i)) <= LimitOf(i)

RECURSIVE ExactCostOf(_)
\* The sum of the usage rows' costs in whole-number arithmetic
ExactCostOf(usage) ==
    IF usage = <<>> THEN 0 ELSE UsageCost(Head(usage)) + ExactCostOf(Tail(usage))

RECURSIVE ExactTokensOf(_)
ExactTokensOf(usage) ==
    IF usage = <<>> THEN 0 ELSE UsageTokens(Head(usage)) + ExactTokensOf(Tail(usage))

\* C30 as stated: when the model and the daily breakdown are both included
\* and the distinct model names do not exceed limit, the sum of the byModel
\* tokens equals the sum of the byDay tokens and the sum of the byModel costs
\* equals the sum of the costs of the usage rows of the in-window days.
C30_ByModelSumsMatchTheDailyUsage ==
    \A i \in Calls :
        HasBothWithinLimit(i) =>
            /\ SumOver(RowTokens, ByModelRows(i))
                 = SumOver(RowTokens, ResultOf(i).breakdown.byDay.items)
            /\ SumOver(RowCost, ByModelRows(i)) = SumOver(UsageCost, UsageOf(i))

\* C30 amended: under the same conditions the two token sums are equal
\* whenever the tokens of the in-window usage rows add up without rounding,
\* and the two cost sums are equal whenever their costs add up without
\* rounding (the total does not pass the limit of the significand); both are
\* then the exact total.
C30_ByModelSumsMatchWhenNoSumRounds ==
    \A i \in Calls :
        HasBothWithinLimit(i) =>
            /\ ExactTokensOf(UsageOf(i)) <= SignificandLimit =>
                  /\ SumOver(RowTokens, ByModelRows(i)) = ExactTokensOf(UsageOf(i))
                  /\ SumOver(RowTokens, ResultOf(i).breakdown.byDay.items)
                       = ExactTokensOf(UsageOf(i))
            /\ ExactCostOf(UsageOf(i)) <= SignificandLimit =>
                  /\ SumOver(RowCost, ByModelRows(i)) = ExactCostOf(UsageOf(i))
                  /\ SumOver(UsageCost, UsageOf(i)) = ExactCostOf(UsageOf(i))

\* Four model names over three in-window days, one of them without a cost of
\* its own: 253 tokens and 253 in cost on both sides
C30_Witness ==
    /\ HasBothWithinLimit(1)
    /\ Len(local[1].dailyData) = 3
    /\ Cardinality(ModelNamesOf(1)) = 4
    /\ \E k \in DOMAIN local[1].dailyData : local[1].dailyData[k].totalCost = Undefined
    /\ SumOver(RowTokens, ByModelRows(1)) = 253
    /\ SumOver(RowTokens, ResultOf(1).breakdown.byDay.items) = 253
    /\ SumOver(RowCost, ByModelRows(1)) = 253

====
